---- MODULE Spec2Model ----
(***************************************************************************)
(* A model of the AWS DMS ingestion pipeline of this repository: the       *)
(* resource ledger (bin/utils.py), the DMS reconcilers, the task starter   *)
(* and monitor (bin/DMS.py), the RDS, S3 and IAM stages, the orchestrator  *)
(* (bin/main.py) and the teardown (bin/delete_di.py).                      *)
(*                                                                         *)
(* The remote AWS services are the environment.  Every remote call may     *)
(* raise; a resource that was asked to be deleted stays listed (status     *)
(* "deleting") until the service removes it; identifiers of new resources  *)
(* are fresh.  Identifiers are positive integers and None is 0, so that    *)
(* Python's truth test "if not arn" is "arn = None".                       *)
(***************************************************************************)
EXTENDS Integers, Sequences, FiniteSets, TLC

None == 0

\* ------------------------------------------------------------- bounds
\* Fresh ARNs handed out by the remote service are 2 .. MaxArn.
MaxArn == 6

VARIABLES
    run_data,   \* the ledger file run_data.json
    rtasks,     \* remote: the DMS replication tasks listed by the service
    rinstances, \* remote: the DMS replication instances
    endpoints,  \* remote: the DMS endpoints
    buckets,    \* remote: the S3 buckets
    nextArn,    \* remote: the next fresh identifier
    inv,        \* the invocation that returned last: op, args, ret, calls
    pre,        \* the invocation before it, when nothing happened in between
    underTest,  \* which reconciler the behaviour exercises
    starter,    \* start_replication_task: where it is and what it saw
    td,         \* delete_di: where the teardown is and what it saw
    dbs,        \* remote: the RDS instances
    clock,      \* the minute of the day
    rdsrun,     \* the RDS stage of the latest pipeline run: calls and result
    account,    \* remote: the IAM roles and the VPC endpoints
    pl,         \* run_etl_pipeline: its stage, its locals, the stages it ran
    tc,         \* test_connection: where the prober is and what it saw
    conn,       \* remote: the status of the connection of the endpoint tested
    lg          \* the ledger calls: the latest one, and the runs in the middle
                \* of an update

remote == <<rtasks, rinstances, endpoints, buckets>>
rdsvars == <<dbs, clock, rdsrun>>
probevars == <<tc, conn, lg>>
\* what the DMS reconcilers, start_replication_task, delete_di and the RDS
\* stage leave alone
harness == <<underTest, starter, td, rdsvars, account, pl, probevars>>
notStart == <<run_data, rinstances, endpoints, buckets, nextArn, inv, pre,
              underTest, td, rdsvars, account, probevars>>
notTeardown == <<buckets, nextArn, inv, pre, underTest, starter, rdsvars,
                 account, pl, probevars>>
notRds == <<remote, nextArn, inv, pre, underTest, starter, td, account,
            probevars>>
\* what the stages of run_etl_pipeline leave alone
dmsvars == <<rtasks, rinstances, endpoints, nextArn, inv, pre>>
notDms == <<underTest, starter, td, rdsvars, account, probevars>>
vars == <<run_data, rtasks, rinstances, endpoints, buckets, nextArn, inv, pre,
          underTest, starter, td, dbs, clock, rdsrun, account, pl, tc, conn, lg>>

\* ------------------------------------------------------------- ledger
\* utils.load_run_data: the file's content, or the default skeleton when the
\* file is absent or is not valid JSON.
DefaultRunData ==
    [last_run  |-> "null",
     resources |-> [rds |-> [instance_id |-> None, endpoint |-> None],
                    s3  |-> [bucket_name |-> None, folder |-> None],
                    iam |-> [s3_role_arn |-> None, vpc_role_arn |-> None],
                    dms |-> [replication_instance_id |-> None,
                             source_endpoint_id |-> None,
                             target_endpoint_id |-> None,
                             replication_task_id |-> None]]]

Load(file) == IF file.file = "ok" THEN file.json ELSE DefaultRunData

\* Lines 11-14: the file is opened in text mode and json.load reads it; bytes
\* that are no UTF-8 text raise UnicodeDecodeError, which the except clause of
\* line 14 (FileNotFoundError, JSONDecodeError) does not name.
load_raises(file) == file.file = "undecodable"
load_run_data == Load(run_data)

\* utils.save_run_data: stamps last_run and rewrites the whole file.
save_run_data(rd) == [file |-> "ok", json |-> [rd EXCEPT !.last_run = "now"]]

\* An update that starts from the default skeleton, not from the loaded file.
Merged_FromDefault(rd, kind, data) ==
    [DefaultRunData EXCEPT !.resources = (kind :> data) @@ @]

\* A dict.update that replaces the record instead of merging into it.
dict_update_Replace(current, data) == data

\* dict.update(data) of line 65: the keys of data are set, the others kept.
dict_update(current, data) == data @@ current

\* Lines 56-66 of update_resource_data on the loaded document: the record of
\* the kind is created when missing, then updated.
Merged(rd, kind, data) ==
    LET res == rd.resources
        new == IF kind \in DOMAIN res
                 THEN [res EXCEPT ![kind] = dict_update(@, data)]
                 ELSE (kind :> dict_update(<<>>, data)) @@ res
    IN  [rd EXCEPT !.resources = new]

\* utils.update_resource_data for a resource kind: load, merge, save.
Updated(file, kind, data) == save_run_data(Merged(Load(file), kind, data))

update_resource_data(kind, data) == Updated(run_data, kind, data)

\* utils.update_resource_data('last_run', ...): load, stamp, save.
update_last_run(file) == save_run_data(Load(file))

\* utils.get_resource_data(kind, key)
get_resource_data(kind, key) ==
    LET res == load_run_data.resources
    IN  IF kind \notin DOMAIN res THEN None
        ELSE IF key \notin DOMAIN res[kind] THEN None
        ELSE res[kind][key]

\* ------------------------------------------------------------- values
\* A remote call the invocation issued, and whether the service accepted it.
Call(api, ok) == [api |-> api, ok |-> ok]

NoCall == [op |-> "none", args |-> <<>>, ret |-> None, calls |-> <<>>]

\* start_replication_task before it is called: `seen` is the listing of line
\* 849, `cmds` the start types sent, `obs` the listing of the latest poll,
\* `lagging` that the start command was accepted and the listing does not show
\* it yet.
Unseen == [status |-> "-", reason |-> <<>>]
NotStarted == [pc |-> "idle", seen |-> Unseen, cmds |-> <<>>, obs |-> Unseen,
               ret |-> FALSE, lagging |-> FALSE]

\* delete_di before main is called: `polls` counts the rounds of the waiting
\* loop it is in, `check` is what the verification of the stage at hand found
\* about the resources that depend on it, `issued` the mutating calls of the
\* latest step, `deleted` the resources whose delete call was accepted.
NoTeardown == [pc |-> "confirm", polls |-> 0, check |-> "-", issued |-> {},
               confirmation |-> "-", exit |-> -1, deleted |-> {}]

\* An RDS endpoint as boto3 hands it out; NoEndpoint stands for Python's None.
RdsEndpoint(address, port) == [Address |-> address, Port |-> port]
NoEndpoint == RdsEndpoint(None, None)
NoRun == [calls |-> <<>>, ret |-> NoEndpoint]
NoRds == dbs = {} /\ clock = 0 /\ rdsrun = NoRun

\* run_etl_pipeline before it is called.  `trace` lists the stages that ran
\* and whether each reported success, `issued` the task calls of the run,
\* `matching` whether the stale-task cleanup met a task of the desired
\* linkage and table mappings.
NotRun == [pc |-> "rds", trace |-> <<>>, rds_endpoint |-> NoEndpoint,
           bucket_name |-> None, s3_role_arn |-> None, vpc_role_arn |-> None,
           replication_instance_arn |-> None, source_endpoint_arn |-> None,
           target_endpoint_arn |-> None, task_arn |-> None,
           matching |-> FALSE, issued |-> {}, skip |-> FALSE, accept |-> FALSE,
           target_test |-> "-", target_s3 |-> FALSE, deleted_in |-> {},
           returned_False |-> {}, created_role |-> FALSE,
           roles_created |-> FALSE, wait_time |-> 0]
NoAccount == [roles |-> {}, vpce |-> {}]
NoPipeline == account = NoAccount /\ pl = NotRun

\* test_connection before it is called.  `status` is its local of that name,
\* unbound until a poll lists a connection; `why` says which return statement
\* ended the call, `saw_failure` that a poll met a failure status which no
\* tolerance for S3 covers.
NotTested == [pc |-> "idle", is_s3_endpoint |-> FALSE, retry |-> 0,
              poll_attempts |-> 0, status |-> "unbound", ret |-> FALSE,
              why |-> "-", saw_failure |-> FALSE, skip |-> FALSE,
              accept |-> FALSE]
NoProbe == tc = NotTested /\ conn = "none"

\* No ledger call made yet, no run in the middle of update_resource_data.
Runs == {1, 2}
NoLedgerCall ==
    [op |-> "-", resource_type |-> "-", resource_key |-> "-",
     resource_data |-> <<>>, ret |-> None, raised |-> FALSE,
     before |-> [file |-> "absent", json |-> DefaultRunData],
     runs |-> [p \in Runs |-> [pc |-> "idle", resource_type |-> "-",
                               resource_data |-> <<>>,
                               loaded |-> [file |-> "absent",
                                           json |-> DefaultRunData]]],
     written |-> {}, stale |-> FALSE]

\* f"{AWS_PROFILE}-sqlserver-to-s3-task"
task_id == 1
\* json.dumps(table_mappings) of create_replication_task; 2 is any other text
TableMappings == 1
OtherMappings == TableMappings + 1

ArgArns == {1, 2}
TaskStatuses == {"creating", "ready", "starting", "running", "stopping",
                 "stopped", "failed", "deleting"}

Task(arn, status, inst, src, tgt, maps) ==
    [id |-> task_id, arn |-> arn, status |-> status, inst |-> inst,
     src |-> src, tgt |-> tgt, maps |-> maps, reason |-> <<>>]

\* The invocation returns: it becomes the last one, the former last one the
\* one before it.
Returned(op, args, ret, calls) ==
    /\ inv' = [op |-> op, args |-> args, ret |-> ret, calls |-> calls]
    /\ pre' = [inv EXCEPT !.calls = <<>>]

Issued(calls, api) == \E i \in 1..Len(calls) : calls[i].api = api
Accepted(calls, api) ==
    \E i \in 1..Len(calls) : calls[i].api = api /\ calls[i].ok

\* ------------------------------------------- DMS.create_replication_task
\* describe_replication_tasks with the replication-task-id filter
TasksById(ts) == {t \in ts : t.id = task_id}

LinkChanged(t, inst, src, tgt) ==
    t.src # src \/ t.tgt # tgt \/ t.inst # inst

\* The inner try left with task_exists = False: nothing listed, or the
\* handler of line 567 after any exception of lines 481-560.
TaskAbsent(ts, calls) ==
    [tasks |-> ts, calls |-> calls, exists |-> FALSE, arn |-> None]

\* Lines 513-527: a running or starting task is stopped and awaited.  The stop
\* call may raise, and so may the waiter.
StopBeforeChange(t, calls) ==
    IF t.status \in {"running", "starting"}
      THEN {[t |-> t,
             calls |-> Append(calls, Call("stop_replication_task", FALSE)),
             ok |-> FALSE],
            [t |-> [t EXCEPT !.status = "stopping"],
             calls |-> Append(calls, Call("stop_replication_task", TRUE)),
             ok |-> FALSE],
            [t |-> [t EXCEPT !.status = "stopped"],
             calls |-> Append(calls, Call("stop_replication_task", TRUE)),
             ok |-> TRUE]}
      ELSE {[t |-> t, calls |-> calls, ok |-> TRUE]}

\* Lines 552-560: the fallback of a failed modify or delete deletes the task;
\* when that raises too, the handler of line 567 takes over.
DeleteFallback(rest, t, calls) ==
    {[tasks |-> rest \cup {[t EXCEPT !.status = "deleting"]},
      calls |-> Append(calls, Call("delete_replication_task", TRUE)),
      exists |-> FALSE, arn |-> t.arn],
     TaskAbsent(rest \cup {t},
                Append(calls, Call("delete_replication_task", FALSE)))}

\* A variant of lines 529-551 that leaves task_exists False after the modify
\* call, so that the create call of line 579 follows it.
ModifyThenRecreate(rest, t, calls, link) ==
    {[tasks |-> rest \cup {[t EXCEPT !.maps = TableMappings]},
      calls |-> Append(calls, Call("modify_replication_task", TRUE)),
      exists |-> FALSE, arn |-> t.arn]}

\* Lines 529-560: a changed linkage deletes the task, changed table mappings
\* alone modify it.
ModifyOrDelete(rest, t, calls, link) ==
    IF link
      THEN {[tasks |-> rest \cup {[t EXCEPT !.status = "deleting"]},
             calls |-> Append(calls, Call("delete_replication_task", TRUE)),
             exists |-> FALSE, arn |-> t.arn]}
           \cup DeleteFallback(rest, t,
                   Append(calls, Call("delete_replication_task", FALSE)))
      ELSE {[tasks |-> rest \cup {[t EXCEPT !.maps = TableMappings]},
             calls |-> Append(calls, Call("modify_replication_task", TRUE)),
             exists |-> TRUE, arn |-> t.arn]}
           \cup DeleteFallback(rest, t,
                   Append(calls, Call("modify_replication_task", FALSE)))

\* Lines 480-570: look the task up and bring an existing one in line.
ReconcileExisting(ts, inst, src, tgt) ==
    LET found  == TasksById(ts)
        listed == <<Call("describe_replication_tasks", TRUE)>>
    IN  {TaskAbsent(ts, <<Call("describe_replication_tasks", FALSE)>>)}
        \cup
        IF found = {} THEN {TaskAbsent(ts, listed)}
        ELSE LET t    == CHOOSE x \in found : TRUE
                 rest == ts \ {t}
                 link == LinkChanged(t, inst, src, tgt)
             IN  IF ~(link \/ t.maps # TableMappings)
                   THEN {[tasks |-> ts, calls |-> listed, exists |-> TRUE,
                          arn |-> t.arn]}
                   ELSE UNION {IF s.ok
                                 THEN ModifyOrDelete(rest, s.t, s.calls, link)
                                 ELSE {TaskAbsent(rest \cup {s.t}, s.calls)}
                               : s \in StopBeforeChange(t, listed)}

\* Lines 579-621 on the tasks `ts` the service lists when the create call
\* arrives: the call is rejected while a task of that identifier is listed.
CreateTask(ts, calls, fresh, inst, src, tgt) ==
    LET rejected == [tasks |-> ts,
                     calls |-> Append(calls, Call("create_replication_task", FALSE)),
                     ret |-> None, persist |-> FALSE]
        c        == Append(calls, Call("create_replication_task", TRUE))
        new(st)  == Task(fresh, st, inst, src, tgt, TableMappings)
    IN  IF TasksById(ts) # {} \/ fresh > MaxArn THEN {rejected}
        ELSE {rejected}
             \cup \* the ready-waiter returned
             {[tasks |-> ts \cup {new("ready")}, calls |-> c,
               ret |-> fresh, persist |-> TRUE]}
             \cup \* the waiter raised; the manual check saw status st
             {[tasks |-> ts \cup {new(st)}, calls |-> c,
               ret |-> IF st \in {"ready", "stopped"} THEN fresh ELSE None,
               persist |-> st \in {"ready", "stopped"}]
              : st \in {"creating", "ready", "failed"}}
             \cup \* the waiter raised, and so did the manual check
             {[tasks |-> ts \cup {new(st)}, calls |-> c,
               ret |-> None, persist |-> FALSE]
              : st \in {"creating", "ready", "failed"}}
             \cup \* the waiter raised; the manual check listed no task
             {[tasks |-> ts, calls |-> c, ret |-> fresh, persist |-> TRUE]}

\* Lines 573-629: create the task unless one exists.  The deletion asked for
\* above may or may not have completed during the sleeps of lines 542 and 576.
CreateIfAbsent(r, fresh, inst, src, tgt) ==
    IF r.exists
      THEN {[tasks |-> r.tasks, calls |-> r.calls, ret |-> r.arn,
             persist |-> TRUE]}
      ELSE UNION {CreateTask(ts, r.calls, fresh, inst, src, tgt)
                  : ts \in {r.tasks}
                           \cup {r.tasks \ {t} : t \in
                                  {x \in TasksById(r.tasks) : x.status = "deleting"}}}

TaskOutcomes(ts, fresh, inst, src, tgt) ==
    IF inst = None \/ src = None \/ tgt = None
      THEN {[tasks |-> ts, calls |-> <<>>, ret |-> None, persist |-> FALSE]}
      ELSE UNION {CreateIfAbsent(r, fresh, inst, src, tgt)
                  : r \in ReconcileExisting(ts, inst, src, tgt)}

create_replication_task(inst, src, tgt) ==
    \E o \in TaskOutcomes(rtasks, nextArn, inst, src, tgt) :
        /\ rtasks' = o.tasks
        /\ nextArn' = IF Accepted(o.calls, "create_replication_task")
                        THEN nextArn + 1 ELSE nextArn
        /\ run_data' = IF o.persist
                         THEN update_resource_data("dms",
                                [replication_task_id |-> task_id,
                                 replication_task_arn |-> o.ret])
                         ELSE run_data
        /\ Returned("create_replication_task", <<inst, src, tgt>>, o.ret, o.calls)
        /\ UNCHANGED <<rinstances, endpoints, buckets>>

\* ------------------------------------------------ DMS.check_s3_bucket_exists
Bucket(name, folder) == [name |-> name, folder |-> folder]

\* Lines 36-99: head_bucket, then the dms-data/ prefix; a bucket the service
\* reports missing (404) is created.  `folder` says whether an object exists
\* under dms-data/.
check_s3_bucket_exists(bs, bucket_name) ==
    LET no(bs2, calls) == [buckets |-> bs2, calls |-> calls, ok |-> FALSE]
        found == {b \in bs : b.name = bucket_name}
    IN  IF bucket_name = None THEN {no(bs, <<>>)}
        ELSE {no(bs, <<>>)}         \* 403, or any other error of the check
             \cup
             IF found # {}
               THEN LET b == CHOOSE x \in found : TRUE
                    IN  IF b.folder
                          THEN {[buckets |-> bs, calls |-> <<>>, ok |-> TRUE]}
                          ELSE {[buckets |-> (bs \ {b}) \cup {Bucket(bucket_name, TRUE)},
                                 calls |-> <<Call("put_object", TRUE)>>,
                                 ok |-> TRUE],
                                no(bs, <<Call("put_object", FALSE)>>)}
               ELSE {[buckets |-> bs \cup {Bucket(bucket_name, TRUE)},
                      calls |-> <<Call("create_bucket", TRUE),
                                  Call("put_object", TRUE)>>,
                      ok |-> TRUE],
                     no(bs \cup {Bucket(bucket_name, FALSE)},
                        <<Call("create_bucket", TRUE), Call("put_object", FALSE)>>),
                     no(bs, <<Call("create_bucket", FALSE)>>)}

\* --------------------------------------------------------- DMS endpoints
\* f"{AWS_PROFILE}-sqlserver-source" and "mforbush-s3-target"
source_endpoint_id == 1
target_endpoint_id == 2

\* S3Settings are a set of <<key, value>> pairs.  DataFormat stands for the
\* settings create_target_endpoint fixes (BucketFolder, CsvRowDelimiter,
\* CsvDelimiter, DataFormat, AddColumnName, CompressionType).
Csv == 1
s3_settings(bucket_name, role_arn) ==
    {<<"BucketName", bucket_name>>, <<"ServiceAccessRoleArn", role_arn>>,
     <<"DataFormat", Csv>>}

Endpoint(id, arn, engine, status, server, s3) ==
    [id |-> id, arn |-> arn, engine |-> engine, status |-> status,
     server |-> server, s3 |-> s3]

\* A listing that ignores the endpoint-id filter.
EndpointsById_Unfiltered(es, id) == es

EndpointsById(es, id) == {e \in es : e.id = id}

\* What the service lists a moment after a delete call: the resource being
\* deleted may be gone already.
MaybeGone(rs) == {rs} \cup {rs \ {r} : r \in {x \in rs : x.status = "deleting"}}

\* ----------------------------------------------- DMS.create_source_endpoint
\* Lines 217-275.  The delete of lines 235-242 never reaches the service:
\* `response` is unbound when describe raised and lists nothing otherwise, so
\* evaluating its argument raises and the handler passes.
SourceOutcomes(es, fresh, rds_endpoint) ==
    LET found  == EndpointsById(es, source_endpoint_id)
        failed(calls) == [endpoints |-> es, calls |-> calls, ret |-> None,
                          persist |-> FALSE]
        describe(ok) == <<Call("describe_endpoints", ok)>>
        create(calls) ==
            IF found # {} \/ fresh > MaxArn
              THEN {failed(Append(calls, Call("create_endpoint", FALSE)))}
              ELSE {failed(Append(calls, Call("create_endpoint", FALSE))),
                    [endpoints |-> es \cup {Endpoint(source_endpoint_id, fresh,
                                              "sqlserver", "active",
                                              rds_endpoint, {})},
                     calls |-> Append(calls, Call("create_endpoint", TRUE)),
                     ret |-> fresh, persist |-> TRUE]}
    IN  IF rds_endpoint = None THEN {failed(<<>>)}
        ELSE create(describe(FALSE))
             \cup IF found = {} THEN create(describe(TRUE))
                  ELSE {[endpoints |-> es, calls |-> describe(TRUE),
                         ret |-> (CHOOSE e \in found : TRUE).arn,
                         persist |-> FALSE]}

create_source_endpoint(rds_endpoint) ==
    \E o \in SourceOutcomes(endpoints, nextArn, rds_endpoint) :
        /\ endpoints' = o.endpoints
        /\ nextArn' = IF Accepted(o.calls, "create_endpoint")
                        THEN nextArn + 1 ELSE nextArn
        /\ run_data' = IF o.persist
                         THEN update_resource_data("dms",
                                [source_endpoint_id |-> source_endpoint_id,
                                 source_endpoint_arn |-> o.ret])
                         ELSE run_data
        /\ Returned("create_source_endpoint", <<rds_endpoint>>, o.ret, o.calls)
        /\ UNCHANGED <<rtasks, rinstances, buckets>>

\* ----------------------------------------------- DMS.create_target_endpoint
\* Lines 348-352: a desired key that is missing or differs.
settings_changed(current, desired) == \E p \in desired : p \notin current

\* modify_endpoint(S3Settings = desired) on the service
ModifiedSettings(current, desired) ==
    desired \cup {p \in current : \A q \in desired : q[1] # p[1]}

\* Lines 331-378: look the endpoint up; modify it when its settings differ,
\* delete it when the modify call raises.  An exception of the delete call
\* reaches the handler of line 373 like one of the describe call.
ReconcileTarget(es, desired) ==
    LET found == EndpointsById(es, target_endpoint_id)
        absent(es2, calls) == [endpoints |-> es2, calls |-> calls,
                               exists |-> FALSE, arn |-> None]
        listed == <<Call("describe_endpoints", TRUE)>>
    IN  {absent(es, <<Call("describe_endpoints", FALSE)>>)}
        \cup
        IF found = {} THEN {absent(es, listed)}
        ELSE LET e    == CHOOSE x \in found : TRUE
                 rest == es \ {e}
             IN  IF ~settings_changed(e.s3, desired)
                   THEN {[endpoints |-> es, calls |-> listed, exists |-> TRUE,
                          arn |-> e.arn]}
                   ELSE {[endpoints |-> rest \cup
                             {[e EXCEPT !.s3 = ModifiedSettings(e.s3, desired)]},
                          calls |-> Append(listed, Call("modify_endpoint", TRUE)),
                          exists |-> TRUE, arn |-> e.arn],
                         [endpoints |-> rest \cup {[e EXCEPT !.status = "deleting"]},
                          calls |-> listed \o <<Call("modify_endpoint", FALSE),
                                                Call("delete_endpoint", TRUE)>>,
                          exists |-> FALSE, arn |-> e.arn],
                         absent(es, listed \o <<Call("modify_endpoint", FALSE),
                                                Call("delete_endpoint", FALSE)>>)}

\* Lines 380-391: create the endpoint unless one exists.
CreateTarget(r, fresh, desired) ==
    IF r.exists
      THEN {[endpoints |-> r.endpoints, calls |-> r.calls, ret |-> r.arn,
             persist |-> TRUE]}
      ELSE UNION {
             LET rejected == [endpoints |-> es,
                              calls |-> Append(r.calls, Call("create_endpoint", FALSE)),
                              ret |-> None, persist |-> FALSE]
             IN  IF EndpointsById(es, target_endpoint_id) # {} \/ fresh > MaxArn
                   THEN {rejected}
                   ELSE {rejected,
                         [endpoints |-> es \cup {Endpoint(target_endpoint_id, fresh,
                                                   "s3", "active", None, desired)},
                          calls |-> Append(r.calls, Call("create_endpoint", TRUE)),
                          ret |-> fresh, persist |-> TRUE]}
             : es \in MaybeGone(r.endpoints)}

\* DMS.get_run_data: the whole ledger document, not its resources.
get_run_data(file) == Load(file)

\* Lines 401-407: the replication instance ARN the immediate test reads.
ImmediateTestArn(rd) ==
    IF "dms" \in DOMAIN rd
      THEN IF "replication_instance_arn" \in DOMAIN rd["dms"]
             THEN rd["dms"]["replication_instance_arn"] ELSE None
      ELSE None

create_target_endpoint(bucket_name, role_arn) ==
    IF bucket_name = None \/ role_arn = None
      THEN /\ Returned("create_target_endpoint", <<bucket_name, role_arn>>, None, <<>>)
           /\ UNCHANGED <<run_data, remote, nextArn>>
      ELSE
        \E b \in check_s3_bucket_exists(buckets, bucket_name) :
          /\ buckets' = b.buckets
          /\ IF ~b.ok
               THEN /\ Returned("create_target_endpoint", <<bucket_name, role_arn>>,
                                None, b.calls)
                    /\ UNCHANGED <<run_data, rtasks, rinstances, endpoints, nextArn>>
               ELSE
                 \E r \in ReconcileTarget(endpoints, s3_settings(bucket_name, role_arn)) :
                 \E o \in CreateTarget(r, nextArn, s3_settings(bucket_name, role_arn)) :
                   /\ endpoints' = o.endpoints
                   /\ nextArn' = IF Accepted(o.calls, "create_endpoint")
                                   THEN nextArn + 1 ELSE nextArn
                   /\ LET file   == IF o.persist
                                      THEN update_resource_data("dms",
                                             [target_endpoint_id |-> target_endpoint_id,
                                              target_endpoint_arn |-> o.ret])
                                      ELSE run_data
                          tested == o.persist /\ o.ret # None
                                    /\ ImmediateTestArn(get_run_data(file)) # None
                      IN  /\ run_data' = file
                          /\ Returned("create_target_endpoint",
                                      <<bucket_name, role_arn>>, o.ret,
                                      b.calls \o o.calls \o
                                      (IF tested THEN <<Call("test_connection", TRUE)>>
                                       ELSE <<>>))
                   /\ UNCHANGED <<rtasks, rinstances>>

\* ------------------------------------------ DMS.create_replication_instance
\* f"{AWS_PROFILE}-dms-instance"
instance_id == 1

Instance(arn, status) == [id |-> instance_id, arn |-> arn, status |-> status]

\* Lines 116-197: an instance that is listed is returned as it is; otherwise,
\* and when the describe call raised, one is created and awaited.
InstanceOutcomes(is, fresh) ==
    LET failed(is2, calls) == [instances |-> is2, calls |-> calls, ret |-> None,
                               persist |-> FALSE]
        describe(ok) == <<Call("describe_replication_instances", ok)>>
        create(calls) ==
            IF is # {} \/ fresh > MaxArn
              THEN {failed(is, Append(calls, Call("create_replication_instance", FALSE)))}
              ELSE {failed(is, Append(calls, Call("create_replication_instance", FALSE))),
                    \* the waiter, or the describe after it, raised
                    failed({Instance(fresh, "creating")},
                           Append(calls, Call("create_replication_instance", TRUE))),
                    [instances |-> {Instance(fresh, "available")},
                     calls |-> Append(calls, Call("create_replication_instance", TRUE)),
                     ret |-> fresh, persist |-> TRUE]}
    IN  create(describe(FALSE))
        \cup IF is = {} THEN create(describe(TRUE))
             ELSE {[instances |-> is, calls |-> describe(TRUE),
                    ret |-> (CHOOSE i \in is : TRUE).arn, persist |-> FALSE]}

create_replication_instance ==
    \E o \in InstanceOutcomes(rinstances, nextArn) :
        /\ rinstances' = o.instances
        /\ nextArn' = IF Accepted(o.calls, "create_replication_instance")
                        THEN nextArn + 1 ELSE nextArn
        /\ run_data' = IF o.persist
                         THEN update_resource_data("dms",
                                [replication_instance_id |-> instance_id,
                                 replication_instance_arn |-> o.ret])
                         ELSE run_data
        /\ Returned("create_replication_instance", <<>>, o.ret, o.calls)
        /\ UNCHANGED <<rtasks, endpoints, buckets>>

\* ------------------------------------------------------------ the remote
\* The service completes what it was asked to do.
TaskProgress(t) ==
    CASE t.status = "deleting" -> {}
      [] t.status = "creating" -> {[t EXCEPT !.status = "ready"]}
      [] t.status = "starting" -> {[t EXCEPT !.status = "running"]}
      [] t.status = "running"  -> {[t EXCEPT !.status = "stopped"]}
      [] t.status = "stopping" -> {[t EXCEPT !.status = "stopped"]}
      [] OTHER -> {t}

RemoteTaskProgress ==
    \E t \in rtasks :
        /\ TaskProgress(t) # {t}
        /\ rtasks' = (rtasks \ {t}) \cup TaskProgress(t)
        /\ inv' = NoCall
        /\ pre' = NoCall
        /\ UNCHANGED <<run_data, rinstances, endpoints, buckets, nextArn, harness>>

RemoteEndpointProgress ==
    \E e \in endpoints :
        /\ e.status = "deleting"
        /\ endpoints' = endpoints \ {e}
        /\ inv' = NoCall
        /\ pre' = NoCall
        /\ UNCHANGED <<run_data, rtasks, rinstances, buckets, nextArn, harness>>

RemoteInstanceProgress ==
    \E i \in rinstances :
        /\ i.status \in {"creating", "deleting"}
        /\ rinstances' = IF i.status = "deleting" THEN rinstances \ {i}
                         ELSE (rinstances \ {i}) \cup {[i EXCEPT !.status = "available"]}
        /\ inv' = NoCall
        /\ pre' = NoCall
        /\ UNCHANGED <<run_data, rtasks, endpoints, buckets, nextArn, harness>>

\* ------------------------------------------------- the DMS reconcilers
\* The descriptors a run passes: ARNs of the instance, source and target.
TaskArgs == {<<1, 1, 1>>, <<1, 1, 2>>, <<None, 1, 1>>}
\* bucket name and service access role
TargetArgs == {<<1, 1>>, <<1, 2>>, <<None, 1>>}
\* the RDS endpoint (address and port)
SourceArgs == {None, 1, 2}

InitTasks ==
    {{}} \cup {{Task(1, st, i, s, t, m)} :
                 st \in TaskStatuses, i \in ArgArns, s \in ArgArns,
                 t \in ArgArns, m \in {TableMappings, OtherMappings}}

\* S3Settings of a target endpoint found at the start: those of some earlier
\* descriptor, possibly without the fixed settings or with another value.
InitSettings ==
    {{<<"BucketName", 1>>, <<"ServiceAccessRoleArn", r>>} \cup f :
        r \in {1, 2}, f \in {{}, {<<"DataFormat", Csv>>}, {<<"DataFormat", Csv + 1>>},
                             {<<"DataFormat", Csv>>, <<"EnableStatistics", 1>>}}}

InitEndpoints(kind) ==
    IF kind = "source"
      THEN {{}} \cup {{Endpoint(source_endpoint_id, 1, "sqlserver", st, a, {})} :
                        st \in {"active", "deleting"}, a \in {1, 2}}
    ELSE IF kind = "target"
      THEN {{}} \cup {{Endpoint(target_endpoint_id, 1, "s3", st, None, ss)} :
                        st \in {"active", "deleting"}, ss \in InitSettings}
    ELSE {{}}

InitInstances(kind) ==
    IF kind = "instance"
      THEN {{}} \cup {{Instance(1, st)} : st \in {"creating", "available", "deleting"}}
      ELSE {{}}

InitBuckets(kind) ==
    IF kind = "target" THEN {{}, {Bucket(1, FALSE)}, {Bucket(1, TRUE)}} ELSE {{}}

Init ==
    /\ underTest \in {"instance", "source", "target", "task"}
    /\ run_data = [file |-> "absent", json |-> DefaultRunData]
    /\ rtasks \in IF underTest = "task" THEN InitTasks ELSE {{}}
    /\ rinstances \in InitInstances(underTest)
    /\ endpoints \in InitEndpoints(underTest)
    /\ buckets \in InitBuckets(underTest)
    /\ nextArn = 2
    /\ inv = NoCall
    /\ pre = NoCall
    /\ lg = NoLedgerCall
    /\ starter = NotStarted
    /\ td = NoTeardown
    /\ NoRds
    /\ NoPipeline
    /\ NoProbe

Next ==
    \/ /\ underTest = "instance"
       /\ create_replication_instance
       /\ UNCHANGED harness
    \/ /\ underTest = "source"
       /\ \E a \in SourceArgs : create_source_endpoint(a)
       /\ UNCHANGED harness
    \/ /\ underTest = "target"
       /\ \E a \in TargetArgs : create_target_endpoint(a[1], a[2])
       /\ UNCHANGED harness
    \/ /\ underTest = "task"
       /\ \E a \in TaskArgs : create_replication_task(a[1], a[2], a[3])
       /\ UNCHANGED harness
    \/ RemoteTaskProgress
    \/ RemoteEndpointProgress
    \/ RemoteInstanceProgress

Spec == Init /\ [][Next]_vars

\* ------------------------------------------- DMS.start_replication_task
\* str.lower() on the texts the model uses
lower(s) ==
    CASE s = "Ready" -> "ready"
      [] s = "STOPPED" -> "stopped"
      [] s = "YES" -> "yes"
      [] s = "Yes" -> "yes"
      [] OTHER -> s

\* `needle in hay` on texts given as sequences of tokens
Contains(needle, hay) ==
    \E i \in 0..(Len(hay) - Len(needle)) :
        SubSeq(hay, i + 1, i + Len(needle)) = needle

FULL_LOAD_ONLY_FINISHED == <<"FULL_LOAD_ONLY", "_FINISHED">>

\* A variant of lines 860-877 that compares the stop reason for equality.
start_type_ExactReason(task_status, stop_reason) ==
    IF lower(task_status) = "ready" THEN "start-replication"
    ELSE IF lower(task_status) = "stopped"
      THEN IF stop_reason = FULL_LOAD_ONLY_FINISHED
             THEN "reload-target"
             ELSE "resume-processing"
    ELSE IF lower(task_status) = "running" THEN "-"
    ELSE "start-replication"

\* Lines 860-877: the start type for the status and stop reason of line 849;
\* "-" when the task is running and no start type is assigned.
start_type(task_status, stop_reason) ==
    IF lower(task_status) = "ready" THEN "start-replication"
    ELSE IF lower(task_status) = "stopped"
      THEN IF Contains(FULL_LOAD_ONLY_FINISHED, stop_reason)
             THEN "reload-target"
             ELSE "resume-processing"
    ELSE IF lower(task_status) = "running" THEN "-"
    ELSE "start-replication"

\* describe_replication_tasks with the replication-task-arn filter
TasksByArn(ts, arn) == {t \in ts : t.arn = arn}

Finished(ret) == [starter EXCEPT !.pc = "done", !.ret = ret]

\* Lines 836-892: look the task up, pick the start type and send the start
\* command unless the task runs already.
start_replication_task(task_arn) ==
    /\ starter.pc = "idle"
    /\ LET found == TasksByArn(rtasks, task_arn)
       IN  \/ /\ task_arn = None
              /\ starter' = Finished(FALSE)
              /\ UNCHANGED rtasks
           \/ \* describe raised (handler of line 957), or listed nothing
              /\ task_arn # None
              /\ starter' = Finished(FALSE)
              /\ UNCHANGED rtasks
           \/ \E t \in found :
                LET seen == [status |-> t.status, reason |-> t.reason]
                    type == start_type(t.status, t.reason)
                IN  IF lower(t.status) # "running"
                      THEN \/ \* the start call raised
                              /\ starter' = [Finished(FALSE) EXCEPT
                                               !.seen = seen, !.cmds = <<type>>]
                              /\ UNCHANGED rtasks
                           \/ /\ starter' = [starter EXCEPT !.pc = "monitor",
                                               !.seen = seen, !.cmds = <<type>>]
                              /\ rtasks' = (rtasks \ {t}) \cup
                                             {[t EXCEPT !.status = "starting",
                                                        !.reason = <<>>]}
                           \/ \* accepted; the listing still shows the task
                              \* as it was (no sleep before the poll of line 897)
                              /\ starter' = [starter EXCEPT !.pc = "monitor",
                                               !.seen = seen, !.cmds = <<type>>,
                                               !.lagging = TRUE]
                              /\ UNCHANGED rtasks
                      ELSE /\ starter' = [starter EXCEPT !.pc = "monitor",
                                            !.seen = seen]
                           /\ UNCHANGED rtasks
    /\ UNCHANGED notStart

\* A variant of lines 933-952 that takes every stopped task for a finished one.
completion_AnyStop(status, stop_reason) ==
    IF lower(status) = "stopped" THEN "success"
    ELSE IF lower(status) = "failed" THEN "failure"
    ELSE "continue"

\* Lines 933-952: what a poll that listed the task makes of it.
completion(status, stop_reason) ==
    IF lower(status) = "stopped"
      THEN IF Contains(FULL_LOAD_ONLY_FINISHED, stop_reason)
             THEN "success" ELSE "failure"
    ELSE IF lower(status) = "failed" THEN "failure"
    ELSE "continue"

\* Lines 896-956: one round of the monitoring loop.
monitor(task_arn) ==
    /\ starter.pc = "monitor"
    /\ LET found == TasksByArn(rtasks, task_arn)
       IN  \/ \* describe raised (handler of line 957)
              starter' = [Finished(FALSE) EXCEPT !.obs.status = "raised"]
           \/ /\ found = {}
              /\ starter' = [Finished(FALSE) EXCEPT !.obs.status = "missing"]
           \/ \E t \in found :
                LET obs == [status |-> t.status, reason |-> t.reason]
                    c   == completion(t.status, t.reason)
                IN  starter' = IF c = "continue"
                                 THEN [starter EXCEPT !.obs = obs]
                                 ELSE [Finished(c = "success") EXCEPT !.obs = obs]
    /\ UNCHANGED <<rtasks, notStart>>

StartStatuses == {"ready", "Ready", "starting", "running", "stopping",
                  "stopped", "STOPPED", "failed", "deleting"}
StopReasons == {<<>>, <<"Stop Reason ", "FULL_LOAD_ONLY", "_FINISHED">>,
                <<"Stop Reason ", "FULL_LOAD_ONLY">>,
                <<"Stop Reason ", "NORMAL">>}

StartTasks ==
    {{}} \cup {{[Task(1, st, 1, 1, 1, TableMappings) EXCEPT !.reason = r]} :
                 st \in StartStatuses, r \in StopReasons}

\* While the program sleeps the task moves on, as the service or anybody
\* else drives it.
TaskMoves ==
    /\ starter.pc = "monitor"
    /\ rtasks' \in StartTasks
    /\ rtasks' # rtasks
    /\ starter' = [starter EXCEPT !.lagging = FALSE]
    /\ UNCHANGED <<notStart, pl>>

InitStart ==
    /\ underTest = "start"
    /\ run_data = [file |-> "absent", json |-> DefaultRunData]
    /\ rtasks \in StartTasks
    /\ rinstances = {}
    /\ endpoints = {}
    /\ buckets = {}
    /\ nextArn = 2
    /\ inv = NoCall
    /\ pre = NoCall
    /\ lg = NoLedgerCall
    /\ starter = NotStarted
    /\ td = NoTeardown
    /\ NoRds
    /\ NoPipeline
    /\ NoProbe

NextStart ==
    \/ \E a \in {None, 1, 2} : start_replication_task(a) /\ UNCHANGED pl
    \/ monitor(1) /\ UNCHANGED pl
    \/ TaskMoves

SpecStart == InitStart /\ [][NextStart]_vars

\* ------------------------------------------------------------------ RDS
\* The minutes the clock advances.
MaxClock == 2

\* The port the service gives a SQL Server instance.
SqlPort == 1433

\* sql_params['DBInstanceIdentifier'] (lines 41-47): the profile name and
\* datetime.now().strftime("%H-%M"), for the minutes of one day.
DBInstanceIdentifier(now) == now + 1

DbInstance(id, status) == [id |-> id, status |-> status]

\* response['DBInstances'][0]['Endpoint'] of an instance that has one
EndpointOf(d) == RdsEndpoint(d.id, SqlPort)

\* f"{endpoint['Address']}:{endpoint['Port']}" as a number: the address, the
\* colon, the port in four digits.
Colon == 10000
endpoint_str(endpoint) == endpoint.Address * Colon + endpoint.Port

\* host, port = endpoint_str.split(':'); {'Address': host, 'Port': int(port)}
split(str) == RdsEndpoint(str \div Colon, str % Colon)

RdsOutcome(ds, calls, ret, persist) ==
    [dbs |-> ds, calls |-> calls, ret |-> ret, persist |-> persist]

\* RDS.create_rds_instance (lines 70-103) at minute `now`.  An instance that
\* is being created has no 'Endpoint' yet, which raises into line 101.
create_rds_instance(ds, now) ==
    LET id      == DBInstanceIdentifier(now)
        found   == {d \in ds : d.id = id}
        listed  == <<Call("describe_db_instances", TRUE)>>
        refused == Append(listed, Call("create_db_instance", FALSE))
        created == Append(listed, Call("create_db_instance", TRUE))
        new(st) == ds \cup {DbInstance(id, st)}
    IN  {RdsOutcome(ds, <<Call("describe_db_instances", FALSE)>>, NoEndpoint, FALSE)}
        \cup
        IF found # {}
          THEN {RdsOutcome(ds, listed,
                           IF d.status = "available" THEN EndpointOf(d)
                           ELSE NoEndpoint, FALSE) : d \in found}
          ELSE {RdsOutcome(ds, refused, NoEndpoint, FALSE),
                \* the waiter raised, or the process ended during the wait
                RdsOutcome(new("creating"), created, NoEndpoint, FALSE),
                \* the describe call after the waiter raised
                RdsOutcome(new("available"), created, NoEndpoint, FALSE),
                RdsOutcome(new("available"), created,
                           EndpointOf(DbInstance(id, "available")), TRUE)}

\* RDS.main (lines 258-310) on the ledger `file`; the result of
\* initialize_database is not looked at.
rds_main(ds, now, file, use_existing) ==
    LET rds         == Load(file).resources.rds
        db_id       == rds.instance_id
        str         == rds.endpoint
        found       == {d \in ds : d.id = db_id}
        create(calls) ==
            {[o EXCEPT !.calls = calls \o @] : o \in create_rds_instance(ds, now)}
    IN  IF use_existing /\ db_id # None /\ str # None
          THEN \* describe raised: "Will create a new instance instead."
               create(<<Call("describe_db_instances", FALSE)>>)
               \cup UNION {IF d.status = "available"
                             THEN {RdsOutcome(ds, <<Call("describe_db_instances", TRUE)>>,
                                              split(str), FALSE)}
                             ELSE create(<<Call("describe_db_instances", TRUE)>>)
                           : d \in found}
          ELSE create(<<>>)

\* main.run_etl_pipeline, lines 39-60: stamp the ledger, then the RDS stage.
rds_stage ==
    LET file == update_last_run(run_data)
    IN  \E o \in rds_main(dbs, clock, file,
                          Load(file).resources.rds.instance_id # None) :
          /\ dbs' = o.dbs
          /\ run_data' = IF o.persist
                           THEN Updated(file, "rds",
                                  [instance_id |-> DBInstanceIdentifier(clock),
                                   endpoint |-> endpoint_str(o.ret)])
                           ELSE file
          /\ rdsrun' = [calls |-> o.calls, ret |-> o.ret]
          /\ UNCHANGED <<clock, notRds>>

\* A minute passes between two runs.
Tick ==
    /\ clock < MaxClock
    /\ clock' = clock + 1
    /\ UNCHANGED <<run_data, dbs, rdsrun, notRds, pl>>

\* The service finishes creating an instance.
RemoteDbProgress ==
    \E d \in dbs :
        /\ d.status = "creating"
        /\ dbs' = (dbs \ {d}) \cup {[d EXCEPT !.status = "available"]}
        /\ UNCHANGED <<run_data, clock, rdsrun, notRds, pl>>

InitRds ==
    /\ underTest = "rds"
    /\ run_data = [file |-> "absent", json |-> DefaultRunData]
    /\ rtasks = {}
    /\ rinstances = {}
    /\ endpoints = {}
    /\ buckets = {}
    /\ nextArn = 2
    /\ inv = NoCall
    /\ pre = NoCall
    /\ lg = NoLedgerCall
    /\ starter = NotStarted
    /\ td = NoTeardown
    /\ NoRds
    /\ NoPipeline
    /\ NoProbe

NextRds ==
    \/ rds_stage /\ UNCHANGED pl
    \/ Tick
    \/ RemoteDbProgress

SpecRds == InitRds /\ [][NextRds]_vars

\* ------------------------------------------------------------------ S3
\* f"dms-target-{account_id}-{region}"
dms_target_bucket == 1
\* folder_name = "dms-data"
folder_name == 1

S3Outcome(bs, file, calls, ret) ==
    [buckets |-> bs, file |-> file, calls |-> calls, ret |-> ret]

\* S3.create_s3_bucket (lines 28-75): a bucket head_bucket finds is returned
\* without a ledger write, one it reports missing (404) is created and
\* written down; every other error returns None.
create_s3_bucket(bs, file) ==
    LET name == dms_target_bucket
    IN  {S3Outcome(bs, file, <<Call("head_bucket", FALSE)>>, None)}
        \cup
        IF \E b \in bs : b.name = name
          THEN {S3Outcome(bs, file, <<Call("head_bucket", TRUE)>>, name)}
          ELSE {S3Outcome(bs, file, <<Call("head_bucket", FALSE),
                                      Call("create_bucket", FALSE)>>, None),
                S3Outcome(bs \cup {Bucket(name, FALSE)},
                          Updated(file, "s3", [bucket_name |-> name]),
                          <<Call("head_bucket", FALSE),
                            Call("create_bucket", TRUE)>>, name)}

\* S3.create_s3_folder (lines 77-105); `ret` is its True or False.
create_s3_folder(bs, file, bucket_name) ==
    {S3Outcome(bs, file, <<Call("put_object", FALSE)>>, FALSE),
     S3Outcome({IF b.name = bucket_name THEN Bucket(b.name, TRUE) ELSE b : b \in bs},
               Updated(file, "s3", [folder |-> folder_name]),
               <<Call("put_object", TRUE)>>, TRUE)}

\* S3.main (lines 107-121): the bucket name is returned whether or not the
\* folder could be created.
s3_main(bs, file) ==
    UNION {IF b.ret = None THEN {b}
           ELSE {S3Outcome(f.buckets, f.file, b.calls \o f.calls, b.ret)
                 : f \in create_s3_folder(b.buckets, b.file, b.ret)}
           : b \in create_s3_bucket(bs, file)}

\* ----------------------------------------------------------------- IAM
S3Role == "dms-s3-access-role"
VpcRole == "dms-vpc-role"
\* response['Role']['Arn']: the account and the role name make the ARN
role_arn(role_name) == IF role_name = S3Role THEN 1 ELSE 2

\* IAM.get_existing_role: the ARN, or None when get_role raised.
get_existing_role(roles, role_name) ==
    {[calls |-> <<Call("get_role", FALSE)>>, ret |-> None]}
    \cup IF role_name \in roles
           THEN {[calls |-> <<Call("get_role", TRUE)>>, ret |-> role_arn(role_name)]}
           ELSE {}

\* Lines 58-185 and 202-272: the attached policies are listed and detached
\* and the role is deleted, then the role is created and its policy attached.
\* create_dms_role prints an exception of the listing or detaching and goes on
\* to delete_role (lines 87-91); in create_dms_vpc_role it skips delete_role
\* (line 232).  An exception of delete_role is printed, or passed when it says
\* there is no such role, and create_role follows in every case.  A policy
\* that could not be detached keeps the service from deleting the role.
RecreateRole(roles, role_name, calls) ==
    LET out(rs, cs, ret) == [roles |-> rs, calls |-> calls \o cs, ret |-> ret]
        listed(ok) == <<Call("list_attached_role_policies", ok)>>
        detached ==
            {listed(FALSE)}
            \cup IF role_name \in roles
                   THEN {listed(TRUE),
                         Append(listed(TRUE), Call("detach_role_policy", TRUE)),
                         Append(listed(TRUE), Call("detach_role_policy", FALSE))}
                   ELSE {}
        delete(cs) ==
            IF role_name = VpcRole /\ ~cs[Len(cs)].ok
              THEN {[roles |-> roles, calls |-> cs]}
              ELSE {[roles |-> roles,
                     calls |-> Append(cs, Call("delete_role", FALSE))]}
                   \cup IF role_name \in roles
                            /\ cs[Len(cs)] # Call("detach_role_policy", FALSE)
                          THEN {[roles |-> roles \ {role_name},
                                 calls |-> Append(cs, Call("delete_role", TRUE))]}
                          ELSE {}
        deleted == UNION {delete(cs) : cs \in detached}
        created(d) ==
            {out(d.roles, Append(d.calls, Call("create_role", FALSE)), None)}
            \cup IF role_name \in d.roles THEN {}
                 ELSE {out(d.roles \cup {role_name},
                           d.calls \o <<Call("create_role", TRUE),
                                        Call("attach_role_policy", FALSE)>>, None),
                       out(d.roles \cup {role_name},
                           d.calls \o <<Call("create_role", TRUE),
                                        Call("attach_role_policy", TRUE)>>,
                           role_arn(role_name))}
    IN  UNION {created(d) : d \in deleted}

\* Lines 47-56 and 191-200: a role the ledger knows and get_role finds is
\* reused unless force_recreate is set.
RoleOutcomes(roles, role_name, ledger_arn, force_recreate) ==
    IF ~force_recreate /\ ledger_arn # None
      THEN UNION {IF e.ret # None
                    THEN {[roles |-> roles, calls |-> e.calls, ret |-> e.ret]}
                    ELSE RecreateRole(roles, role_name, e.calls)
                  : e \in get_existing_role(roles, role_name)}
      ELSE RecreateRole(roles, role_name, <<>>)

create_dms_role(roles, file, force_recreate) ==
    RoleOutcomes(roles, S3Role, Load(file).resources.iam.s3_role_arn,
                 force_recreate)

create_dms_vpc_role(roles, file, force_recreate) ==
    RoleOutcomes(roles, VpcRole, Load(file).resources.iam.vpc_role_arn,
                 force_recreate)

\* IAM.main (lines 274-298): both ARNs and a ledger write, or (None, None).
iam_main(roles, file, force_recreate) ==
    UNION {{LET both == s.ret # None /\ v.ret # None
            IN  [roles |-> v.roles, calls |-> s.calls \o v.calls,
                 s3_role_arn |-> IF both THEN s.ret ELSE None,
                 vpc_role_arn |-> IF both THEN v.ret ELSE None,
                 file |-> IF both
                            THEN Updated(file, "iam", [s3_role_arn |-> s.ret,
                                                       vpc_role_arn |-> v.ret])
                            ELSE file]
            : v \in create_dms_vpc_role(s.roles, file, force_recreate)}
           : s \in create_dms_role(roles, file, force_recreate)}

\* The two role functions called on their own, and IAM.main, against an
\* account that has all, some or none of the roles.
notIam == <<remote, nextArn, underTest, starter, td, rdsvars, pl, probevars>>

call_create_dms_role ==
    \E force_recreate \in BOOLEAN :
    \E o \in create_dms_role(account.roles, run_data, force_recreate) :
        /\ account' = [account EXCEPT !.roles = o.roles]
        /\ Returned("create_dms_role", <<force_recreate>>, o.ret, o.calls)
        /\ UNCHANGED <<run_data, notIam>>

call_create_dms_vpc_role ==
    \E force_recreate \in BOOLEAN :
    \E o \in create_dms_vpc_role(account.roles, run_data, force_recreate) :
        /\ account' = [account EXCEPT !.roles = o.roles]
        /\ Returned("create_dms_vpc_role", <<force_recreate>>, o.ret, o.calls)
        /\ UNCHANGED <<run_data, notIam>>

call_iam_main ==
    \E force_recreate \in BOOLEAN :
    \E o \in iam_main(account.roles, run_data, force_recreate) :
        /\ account' = [account EXCEPT !.roles = o.roles]
        /\ run_data' = o.file
        /\ Returned("iam_main", <<force_recreate>>, o.s3_role_arn, o.calls)
        /\ UNCHANGED notIam

InitIam ==
    /\ underTest = "iam"
    /\ run_data = [file |-> "absent", json |-> DefaultRunData]
    /\ rtasks = {}
    /\ rinstances = {}
    /\ endpoints = {}
    /\ buckets = {}
    /\ nextArn = 2
    /\ inv = NoCall
    /\ pre = NoCall
    /\ lg = NoLedgerCall
    /\ starter = NotStarted
    /\ td = NoTeardown
    /\ NoRds
    /\ account \in {[NoAccount EXCEPT !.roles = rs] : rs \in SUBSET {S3Role, VpcRole}}
    /\ pl = NotRun
    /\ NoProbe

NextIam == call_create_dms_role \/ call_create_dms_vpc_role \/ call_iam_main

SpecIam == InitIam /\ [][NextIam]_vars

\* ------------------------------------------------------------ delete_di
\* The rounds a waiting loop of delete_di makes before its time is up.
MaxPolls == 2

\* all_tasks, all_endpoints, all_instances (lines 58-78, 197-234, 315-335):
\* what the unfiltered describe listed or, when it raised, those of the
\* ledger's ARNs that the describe calls by ARN found.
Listings(rs, arns) == {rs} \cup SUBSET {r \in rs : r.arn \in arns}

LedgerArn(id_key, arn_key) ==
    IF get_resource_data("dms", id_key) # None
       /\ get_resource_data("dms", arn_key) # None
      THEN {get_resource_data("dms", arn_key)} ELSE {}

\* A prompt that takes every answer for a yes.
confirmed_Always(confirmation) == TRUE

\* Line 611: the answer is compared in lower case.
confirmed(confirmation) == lower(confirmation) = "yes"

\* Lines 605-613: the operator confirms, or the program ends by sys.exit(0).
main(confirmation) ==
    /\ td.pc = "confirm"
    /\ td' = IF confirmed(confirmation)
               THEN [td EXCEPT !.pc = "tasks", !.confirmation = confirmation]
               ELSE [td EXCEPT !.pc = "cancelled", !.confirmation = confirmation,
                               !.exit = 0]
    /\ UNCHANGED <<run_data, remote, notTeardown>>

\* Lines 87-126: the statuses a listed task may be left in.  A running or
\* starting task is stopped first and awaited up to 60 s; the stop call and
\* the delete call may raise.
AfterTaskDelete(t) ==
    {"deleting", t.status}
    \cup IF t.status \in {"running", "starting"}
          THEN {"stopping", "stopped"} ELSE {}

\* Lines 53-126 of delete_replication_tasks.
delete_replication_tasks ==
    /\ td.pc = "tasks"
    /\ \E all \in Listings(rtasks, LedgerArn("replication_task_id",
                                             "replication_task_arn")) :
       \E f \in [all -> TaskStatuses] :
         /\ \A t \in all : f[t] \in AfterTaskDelete(t)
         /\ rtasks' = (rtasks \ all) \cup {[t EXCEPT !.status = f[t]] : t \in all}
         /\ td' = [td EXCEPT
                     !.pc = "tasks_wait", !.polls = 0,
                     !.deleted = @ \cup {<<"task", t.arn>> : t \in {x \in all :
                                     x.status # "deleting" /\ f[x] = "deleting"}},
                     !.issued =
                        (IF all # {} THEN {"delete_replication_task"} ELSE {})
                        \cup (IF \E t \in all : t.status \in {"running", "starting"}
                                THEN {"stop_replication_task"} ELSE {})]
    /\ UNCHANGED <<run_data, rinstances, endpoints, notTeardown>>

\* One round of a "wait for all ... to be deleted" loop (lines 128-157,
\* 256-276, 359-379): a listing that raised is slept over like a non-empty one.
WaitRound(rs, polls) ==
    IF polls >= MaxPolls THEN {"timeout"}
    ELSE {"again"} \cup IF rs = {} THEN {"gone"} ELSE {}

Waited(rs, next) ==
    /\ \E w \in WaitRound(rs, td.polls) :
         td' = IF w = "again"
                 THEN [td EXCEPT !.polls = @ + 1, !.issued = {}]
                 ELSE [td EXCEPT !.pc = next, !.polls = 0, !.issued = {},
                                 !.check = "-"]
    /\ UNCHANGED <<run_data, remote, notTeardown>>

tasks_wait ==
    /\ td.pc = "tasks_wait"
    /\ Waited(rtasks, "endpoints")

\* A variant of HoldRound whose timeout counts as an empty listing.
HoldRound_TimeoutIsEmpty(dependents, first, polls) ==
    IF ~first /\ polls >= MaxPolls THEN "empty"
    ELSE IF dependents = {} THEN "empty" ELSE "again"

\* Lines 168-193 and 288-313: the verification that nothing depends on the
\* resources about to be deleted.  The first listing (`first`) and every round
\* of the loop after it see the dependents listed or raise; the loop ends
\* when its time is up.
HoldRound(dependents, first, polls) ==
    IF ~first /\ polls >= MaxPolls THEN "timeout"
    ELSE IF dependents = {} THEN "empty" ELSE "again"

Verified(dependents, stage) ==
    /\ \E v \in {"error", HoldRound(dependents, td.pc = stage, td.polls)} :
         td' = IF v = "again"
                 THEN [td EXCEPT !.pc = stage \o "_hold", !.issued = {},
                                 !.polls = IF td.pc = stage THEN 0 ELSE @ + 1]
                 ELSE [td EXCEPT !.pc = stage \o "_delete", !.polls = 0,
                                 !.issued = {}, !.check = v]
    /\ UNCHANGED <<run_data, remote, notTeardown>>

delete_endpoints_verify ==
    /\ td.pc \in {"endpoints", "endpoints_hold"}
    /\ Verified(rtasks, "endpoints")

\* Lines 195-254 of delete_endpoints: every delete call is accepted or raises.
delete_endpoints ==
    /\ td.pc = "endpoints_delete"
    /\ \E all \in Listings(endpoints,
                    LedgerArn("source_endpoint_id", "source_endpoint_arn")
                    \cup LedgerArn("target_endpoint_id", "target_endpoint_arn")) :
       \E accepted \in SUBSET all :
         /\ endpoints' = (endpoints \ accepted)
                         \cup {[e EXCEPT !.status = "deleting"] : e \in accepted}
         /\ td' = [td EXCEPT !.pc = "endpoints_wait", !.polls = 0,
                     !.deleted = @ \cup {<<"endpoint", e.arn>> : e \in accepted},
                     !.issued = IF all # {} THEN {"delete_endpoint"} ELSE {}]
    /\ UNCHANGED <<run_data, rtasks, rinstances, notTeardown>>

endpoints_wait ==
    /\ td.pc = "endpoints_wait"
    /\ Waited(endpoints, "instances")

delete_replication_instances_verify ==
    /\ td.pc \in {"instances", "instances_hold"}
    /\ Verified(endpoints, "instances")

\* Lines 315-357 of delete_replication_instances.
delete_replication_instances ==
    /\ td.pc = "instances_delete"
    /\ \E all \in Listings(rinstances,
                    LedgerArn("replication_instance_id", "replication_instance_arn")) :
       \E accepted \in SUBSET all :
         /\ rinstances' = (rinstances \ accepted)
                          \cup {[i EXCEPT !.status = "deleting"] : i \in accepted}
         /\ td' = [td EXCEPT !.pc = "instances_wait", !.polls = 0,
                     !.deleted = @ \cup {<<"instance", i.arn>> : i \in accepted},
                     !.issued = IF all # {} THEN {"delete_replication_instance"}
                                ELSE {}]
    /\ UNCHANGED <<run_data, rtasks, endpoints, notTeardown>>

instances_wait ==
    /\ td.pc = "instances_wait"
    /\ Waited(rinstances, "s3")

teardownRest == <<nextArn, inv, pre, underTest, starter, pl, probevars>>

\* Lines 385-428 of delete_s3_bucket: the bucket of the ledger, or the one of
\* the naming convention, is emptied and deleted; an error leaves it there.
delete_s3_bucket ==
    /\ td.pc = "s3"
    /\ LET ledger == get_resource_data("s3", "bucket_name")
           bucket_name == IF ledger # None THEN ledger ELSE dms_target_bucket
       IN  buckets' \in {buckets, {b \in buckets : b.name # bucket_name}}
    /\ td' = [td EXCEPT !.pc = "rds", !.issued = {}]
    /\ UNCHANGED <<run_data, rtasks, rinstances, endpoints, rdsvars, account,
                   teardownRest>>

\* Lines 436-495 of delete_rds_instances: every instance of the project is
\* sent a delete call, which the service accepts or refuses; an exception of
\* the listing ends the stage (line 516).
delete_rds_instances ==
    /\ td.pc = "rds"
    /\ \/ /\ td' = [td EXCEPT !.pc = "iam", !.issued = {}]
          /\ \E accepted \in SUBSET {d \in dbs : d.id = get_resource_data("rds", "instance_id")} :
               dbs' = (dbs \ accepted)
                      \cup {[d EXCEPT !.status = "deleting"] : d \in accepted}
       \/ /\ td' = [td EXCEPT !.pc = "rds_wait", !.polls = 0,
                               !.issued = IF dbs # {} THEN {"delete_db_instance"}
                                          ELSE {}]
          /\ \E accepted \in SUBSET dbs :
               dbs' = (dbs \ accepted)
                      \cup {[d EXCEPT !.status = "deleting"] : d \in accepted}
    /\ UNCHANGED <<run_data, remote, clock, rdsrun, account, teardownRest>>

\* Lines 497-514: `while True` until the listing shows no instance of the
\* project.  The loop keeps no count; `polls` notes the parity of its rounds.
rds_wait ==
    /\ td.pc = "rds_wait"
    /\ \/ \* describe_db_instances raised a ClientError (line 516)
          td' = [td EXCEPT !.pc = "iam", !.polls = 0, !.issued = {}]
       \/ /\ dbs = {}
          /\ td' = [td EXCEPT !.pc = "iam", !.polls = 0, !.issued = {}]
       \/ /\ dbs # {}
          /\ td' = [td EXCEPT !.polls = 1 - @, !.issued = {}]
    /\ UNCHANGED <<run_data, remote, rdsvars, account, teardownRest>>

\* Lines 519-603 of delete_iam_roles: each role is deleted unless the call
\* raises.
delete_iam_roles ==
    /\ td.pc = "iam"
    /\ \E left \in SUBSET account.roles :
         account' = [account EXCEPT !.roles = left]
    /\ td' = [td EXCEPT !.pc = "done", !.issued = {}, !.exit = 0]
    /\ UNCHANGED <<run_data, remote, rdsvars, teardownRest>>

\* The service completes the deletion of a database instance.
RemoteDbDeletion ==
    \E d \in dbs :
        /\ d.status = "deleting"
        /\ dbs' = dbs \ {d}
        /\ UNCHANGED <<run_data, clock, rdsrun, notRds, pl>>

\* The ledger a complete provisioning run left.
ProvisionedLedger ==
    save_run_data([DefaultRunData EXCEPT !.resources.dms =
        [replication_instance_id |-> instance_id, replication_instance_arn |-> 1,
         source_endpoint_id |-> source_endpoint_id, source_endpoint_arn |-> 1,
         target_endpoint_id |-> target_endpoint_id, target_endpoint_arn |-> 2,
         replication_task_id |-> task_id, replication_task_arn |-> 1]])

TeardownTasks ==
    {{}} \cup {{Task(1, st, 1, 1, 2, TableMappings)} :
                 st \in {"running", "stopped", "deleting"}}

TeardownEndpoints ==
    LET src == Endpoint(source_endpoint_id, 1, "sqlserver", "active", 1, {})
        tgt == Endpoint(target_endpoint_id, 2, "s3", "active", None,
                        s3_settings(1, 1))
    IN  {{}, {src}, {src, tgt}}

InitTeardown ==
    /\ underTest = "teardown"
    /\ run_data \in {[file |-> "absent", json |-> DefaultRunData], ProvisionedLedger}
    /\ rtasks \in TeardownTasks
    /\ rinstances \in {{}, {Instance(1, "available")}}
    /\ endpoints \in TeardownEndpoints
    /\ buckets = {Bucket(dms_target_bucket, TRUE)}
    /\ nextArn = 2
    /\ inv = NoCall
    /\ pre = NoCall
    /\ lg = NoLedgerCall
    /\ starter = NotStarted
    /\ td = NoTeardown
    /\ dbs \in {{}, {DbInstance(DBInstanceIdentifier(0), "available")}}
    /\ clock = 0
    /\ rdsrun = NoRun
    /\ account = [roles |-> {S3Role, VpcRole}, vpce |-> {}]
    /\ pl = NotRun
    /\ NoProbe

NextTeardown ==
    \/ \E c \in {"yes", "YES", "no"} : main(c)
    \/ delete_replication_tasks
    \/ tasks_wait
    \/ delete_endpoints_verify
    \/ delete_endpoints
    \/ endpoints_wait
    \/ delete_replication_instances_verify
    \/ delete_replication_instances
    \/ instances_wait
    \/ delete_s3_bucket
    \/ delete_rds_instances
    \/ rds_wait
    \/ delete_iam_roles
    \/ RemoteTaskProgress
    \/ RemoteEndpointProgress
    \/ RemoteInstanceProgress
    \/ RemoteDbDeletion

SpecTeardown == InitTeardown /\ [][NextTeardown]_vars

\* The steps of delete_di itself, which runs on as long as it is not done.
TeardownStep ==
    \/ \E c \in {"yes", "YES", "no"} : main(c)
    \/ delete_replication_tasks
    \/ tasks_wait
    \/ delete_endpoints_verify
    \/ delete_endpoints
    \/ endpoints_wait
    \/ delete_replication_instances_verify
    \/ delete_replication_instances
    \/ instances_wait
    \/ delete_s3_bucket
    \/ delete_rds_instances
    \/ rds_wait
    \/ delete_iam_roles

SpecTeardownLive == SpecTeardown /\ WF_vars(TeardownStep)

\* ------------------------------------------------------------- clear_di
\* clear_di.main (lines 178-195) calls delete_replication_tasks,
\* delete_endpoints, clear_s3_data and clear_database in turn; `td` holds its
\* place and `td.issued` every call it has made.  Each function ends at its
\* `except ClientError` when a call raises.
clearRest == <<run_data, nextArn, inv, pre, underTest, starter, rdsvars,
               account, pl, probevars>>

Cleared(stage, apis) ==
    [td EXCEPT !.pc = stage, !.polls = 0, !.issued = @ \cup apis]

\* Lines 43-70 of delete_replication_tasks: a running or starting task is
\* sent a stop and awaited; any other task is deleted at once.
clear_delete_replication_tasks ==
    /\ td.pc = "clear_tasks"
    /\ \/ \* describe_replication_tasks raised
          /\ td' = Cleared("clear_endpoints", {})
          /\ UNCHANGED rtasks
       \/ /\ rtasks = {}
          /\ td' = Cleared("clear_tasks_wait", {})
          /\ UNCHANGED rtasks
       \/ \E t \in rtasks :
            IF t.status \in {"running", "starting"}
              THEN \/ /\ td' = Cleared("clear_endpoints", {"stop_replication_task"})
                      /\ UNCHANGED rtasks
                   \/ /\ td' = Cleared("clear_stop_wait", {"stop_replication_task"})
                      /\ rtasks' = (rtasks \ {t}) \cup {[t EXCEPT !.status = "stopping"]}
              ELSE \/ /\ td' = Cleared("clear_endpoints", {"delete_replication_task"})
                      /\ UNCHANGED rtasks
                   \/ /\ td' = Cleared("clear_tasks_wait", {"delete_replication_task"})
                      /\ rtasks' = (rtasks \ {t}) \cup {[t EXCEPT !.status = "deleting"]}
    /\ UNCHANGED <<rinstances, endpoints, buckets, clearRest>>

\* Lines 58-70: `while True` until the task is stopped or gone, then the
\* delete call.  The loop keeps no count; `polls` notes the parity of its
\* rounds.
clear_stop_wait ==
    /\ td.pc = "clear_stop_wait"
    /\ \/ \* describe_replication_tasks raised
          /\ td' = Cleared("clear_endpoints", {})
          /\ UNCHANGED rtasks
       \/ /\ \E t \in rtasks : t.status # "stopped"
          /\ td' = [td EXCEPT !.polls = 1 - @]
          /\ UNCHANGED rtasks
       \/ /\ \A t \in rtasks : t.status = "stopped"
          /\ \/ /\ td' = Cleared("clear_endpoints", {"delete_replication_task"})
                /\ UNCHANGED rtasks
             \/ /\ td' = Cleared("clear_tasks_wait", {"delete_replication_task"})
                /\ rtasks' = {[t EXCEPT !.status = "deleting"] : t \in rtasks}
    /\ UNCHANGED <<rinstances, endpoints, buckets, clearRest>>

\* Lines 72-85: `while True` until no task is listed in deleting status.
clear_tasks_wait ==
    /\ td.pc = "clear_tasks_wait"
    /\ \/ td' = Cleared("clear_endpoints", {})
       \/ /\ \A t \in rtasks : t.status # "deleting"
          /\ td' = Cleared("clear_endpoints", {})
       \/ /\ \E t \in rtasks : t.status = "deleting"
          /\ td' = [td EXCEPT !.polls = 1 - @]
    /\ UNCHANGED <<remote, clearRest>>

\* Lines 94-113 of delete_endpoints: every endpoint listed is sent a delete
\* call; a ClientError of that call is printed.
clear_delete_endpoints ==
    /\ td.pc = "clear_endpoints"
    /\ \/ \* describe_endpoints raised
          /\ td' = Cleared("clear_s3", {})
          /\ UNCHANGED endpoints
       \/ /\ td' = Cleared("clear_endpoints_wait",
                           IF endpoints = {} THEN {} ELSE {"delete_endpoint"})
          /\ \E accepted \in SUBSET endpoints :
               endpoints' = (endpoints \ accepted)
                            \cup {[e EXCEPT !.status = "deleting"] : e \in accepted}
    /\ UNCHANGED <<rtasks, rinstances, buckets, clearRest>>

\* Lines 115-128: `while True` until no endpoint is listed in deleting status.
clear_endpoints_wait ==
    /\ td.pc = "clear_endpoints_wait"
    /\ \/ td' = Cleared("clear_s3", {})
       \/ /\ \A e \in endpoints : e.status # "deleting"
          /\ td' = Cleared("clear_s3", {})
       \/ /\ \E e \in endpoints : e.status = "deleting"
          /\ td' = [td EXCEPT !.polls = 1 - @]
    /\ UNCHANGED <<remote, clearRest>>

\* A clearing that removes the bucket with its objects.
Emptied_BucketToo(bs, bucket_name) == {b \in bs : b.name # bucket_name}

\* Lines 150-158: delete_objects on the keys listed; the bucket stays.
Emptied(bs, bucket_name) ==
    {IF b.name = bucket_name THEN [b EXCEPT !.folder = FALSE] ELSE b : b \in bs}

\* Lines 139-164 of clear_s3_data; clear_database (lines 166-176) only prints.
clear_s3_data ==
    /\ td.pc = "clear_s3"
    /\ LET bucket_name == dms_target_bucket
           listed == {b \in buckets : b.name = bucket_name /\ b.folder}
       IN  \/ \* get_caller_identity or list_objects_v2 raised
              /\ td' = [Cleared("done", {}) EXCEPT !.exit = 0]
              /\ UNCHANGED buckets
           \/ /\ listed = {}
              /\ td' = [Cleared("done", {}) EXCEPT !.exit = 0]
              /\ UNCHANGED buckets
           \/ /\ listed # {}
              /\ td' = [Cleared("done", {"delete_objects"}) EXCEPT !.exit = 0]
              /\ buckets' \in {buckets, Emptied(buckets, bucket_name)}
    /\ UNCHANGED <<rtasks, rinstances, endpoints, clearRest>>

InitClear ==
    /\ underTest = "clear"
    /\ run_data \in {[file |-> "absent", json |-> DefaultRunData], ProvisionedLedger}
    /\ rtasks \in TeardownTasks
    /\ rinstances \in {{}, {Instance(1, "available")}}
    /\ endpoints \in TeardownEndpoints
    /\ buckets \in {{Bucket(dms_target_bucket, f)} : f \in BOOLEAN}
    /\ nextArn = 2
    /\ inv = NoCall
    /\ pre = NoCall
    /\ lg = NoLedgerCall
    /\ starter = NotStarted
    /\ td = [NoTeardown EXCEPT !.pc = "clear_tasks"]
    /\ dbs \in {{}, {DbInstance(DBInstanceIdentifier(0), "available")}}
    /\ clock = 0
    /\ rdsrun = NoRun
    /\ account = [roles |-> {S3Role, VpcRole}, vpce |-> {}]
    /\ pl = NotRun
    /\ NoProbe

NextClear ==
    \/ clear_delete_replication_tasks
    \/ clear_stop_wait
    \/ clear_tasks_wait
    \/ clear_delete_endpoints
    \/ clear_endpoints_wait
    \/ clear_s3_data
    \/ RemoteTaskProgress
    \/ RemoteEndpointProgress

SpecClear == InitClear /\ [][NextClear]_vars

\* ------------------------------------------------- DMS.test_connection
\* max_retries=2 of the signature, max_poll_attempts = 30
max_retries == 2
max_poll_attempts == 30

ConnStatuses == {"none", "testing", "successful", "failed", "deleting", "deleted"}
FailureStatuses == {"failed", "deleting", "deleted"}

\* A return statement of test_connection.
Tested(t, ret, why) == [t EXCEPT !.pc = "done", !.ret = ret, !.why = why]

\* The for loop of line 664 moves on to its next round, or runs out and
\* line 830 returns False.  poll_attempts is written (line 746) before the
\* next round reads it.
NextRound(t, why) ==
    IF t.retry < max_retries
      THEN [t EXCEPT !.pc = "round", !.retry = @ + 1, !.poll_attempts = 0]
      ELSE Tested(t, FALSE, why)

\* The handler of lines 822-828 of an exception that escaped a round.
Escaped(t) ==
    IF t.retry < max_retries
      THEN [t EXCEPT !.pc = "round", !.retry = @ + 1]
      ELSE Tested(t, FALSE, "error")

\* Lines 639-662: the guard on the two ARNs and the look at the engine of the
\* endpoint; SKIP_S3_CONNECTION_TEST and ACCEPT_S3_CONNECTION_FAILURES are
\* what the environment holds during the call.
test_connection(replication_instance_arn, endpoint_arn) ==
    /\ tc.pc = "idle"
    /\ IF replication_instance_arn = None \/ endpoint_arn = None
         THEN tc' = Tested(tc, FALSE, "no_arn")
         ELSE \E skip \in BOOLEAN, accept \in BOOLEAN :
              \E s3 \in {FALSE} \cup {e.engine = "s3" : e \in
                                      {x \in endpoints : x.arn = endpoint_arn}} :
                tc' = [tc EXCEPT !.pc = "round", !.is_s3_endpoint = s3,
                                 !.skip = skip, !.accept = accept]
    /\ UNCHANGED conn

\* Lines 665-768: the head of a round.  Connections left over are deleted
\* (every exception of that is passed over), a test is started, and without a
\* test id the status of the endpoint decides.
test_round(endpoint_arn) ==
    /\ tc.pc = "round"
    /\ \E cleared \in {conn} \cup (IF conn = "none" THEN {}
                                   ELSE {"none", "deleting"}) :
         \/ /\ tc.is_s3_endpoint /\ tc.skip
            /\ tc' = Tested(tc, TRUE, "skipped")
            /\ conn' = cleared
         \/ /\ ~(tc.is_s3_endpoint /\ tc.skip)
            /\ \E started \in BOOLEAN, test_id \in BOOLEAN :
                 /\ started \/ ~test_id
                 /\ conn' = IF started THEN "testing" ELSE cleared
                 /\ IF tc.is_s3_endpoint /\ tc.accept
                      THEN tc' = Tested(tc, TRUE, "accepted")
                    ELSE IF ~test_id
                      THEN \/ \* describe_endpoints raised
                              tc' = Escaped(tc)
                           \/ \E e \in endpoints :
                                /\ e.arn = endpoint_arn
                                /\ tc' = IF e.status = "active"
                                           THEN Tested(tc, TRUE, "active")
                                           ELSE Tested(tc, FALSE, "inactive")
                           \/ /\ \A e \in endpoints : e.arn # endpoint_arn
                              /\ tc' = Tested(tc, FALSE, "inactive")
                    ELSE tc' = [tc EXCEPT !.pc = "poll", !.poll_attempts = 0]

\* poll_attempts += 1, without it
Polled_NotCounted(poll_attempts) == poll_attempts

\* poll_attempts += 1
Polled(poll_attempts) == poll_attempts + 1

\* Lines 819-821: sleep and poll again, until the attempts are used up.
Slept(t) ==
    IF t.poll_attempts < max_poll_attempts THEN t ELSE NextRound(t, "timeout")

\* return True of line 784, return False of line 815
return_successful == TRUE
return_failed == FALSE

\* Lines 782-815 on the value of `status`.
Judged(t) ==
    IF t.status = "successful" THEN Tested(t, return_successful, "successful")
    ELSE IF t.status \in FailureStatuses
      THEN IF t.is_s3_endpoint /\ t.accept
             THEN Tested(t, TRUE, "accepted")
           ELSE IF t.retry < max_retries
             THEN [NextRound(t, "failed") EXCEPT !.saw_failure = TRUE]
           ELSE [Tested(t, return_failed, "failed") EXCEPT !.saw_failure = TRUE]
    ELSE Slept(t)

\* Lines 770-819: one poll.  describe_connections may raise; a listing without
\* connections leaves `status` as it was, and reading it while it is unbound
\* raises into the handler of line 816 like any other exception.
test_poll ==
    /\ tc.pc = "poll"
    /\ LET t == [tc EXCEPT !.poll_attempts = Polled(@)]
       IN  \/ tc' = Slept(t)
           \/ /\ conn = "none"
              /\ tc' = IF t.status = "unbound" THEN Slept(t) ELSE Judged(t)
           \/ /\ conn # "none"
              /\ tc' = Judged([t EXCEPT !.status = conn])
    /\ UNCHANGED conn

\* The service carries the test on, or somebody deletes the connection.
ConnectionMoves ==
    /\ tc.pc \in {"round", "poll"}
    /\ conn' \in ConnStatuses \ {conn}
    /\ UNCHANGED tc

ProbeEndpoints ==
    {{}} \cup {{Endpoint(source_endpoint_id, 1, "sqlserver", st, 1, {})}
               : st \in {"active", "deleting"}}
    \cup {{Endpoint(target_endpoint_id, 1, "s3", "active", None,
                    s3_settings(1, 1))}}

InitProbe ==
    /\ underTest = "probe"
    /\ run_data = [file |-> "absent", json |-> DefaultRunData]
    /\ rtasks = {}
    /\ rinstances = {Instance(1, "available")}
    /\ endpoints \in ProbeEndpoints
    /\ buckets = {}
    /\ nextArn = 2
    /\ inv = NoCall
    /\ pre = NoCall
    /\ lg = NoLedgerCall
    /\ starter = NotStarted
    /\ td = NoTeardown
    /\ NoRds
    /\ NoPipeline
    /\ tc = NotTested
    /\ conn \in {"none", "failed"}

notProbe == <<run_data, remote, nextArn, inv, pre, underTest, starter, td,
              rdsvars, account, pl, lg>>

NextProbe ==
    \/ \E i \in {None, 1} : test_connection(i, 1) /\ UNCHANGED notProbe
    \/ test_round(1) /\ UNCHANGED notProbe
    \/ test_poll /\ UNCHANGED notProbe
    \/ ConnectionMoves /\ UNCHANGED notProbe

SpecProbe == InitProbe /\ [][NextProbe]_vars

\* The program keeps running: a round that can begin does, a poll that is due
\* is made.
SpecProbeLive ==
    /\ SpecProbe
    /\ WF_vars(\E i \in {None, 1} : test_connection(i, 1) /\ UNCHANGED notProbe)
    /\ WF_vars(test_round(1) /\ UNCHANGED notProbe)
    /\ WF_vars(test_poll /\ UNCHANGED notProbe)

\* ------------------------------------------------- main.run_etl_pipeline
\* The stage that follows `stage`, given whether it succeeded: main.py lines
\* 58-60, 80-82, 95-97, 181-183, 209-221 and DMS.py lines 979-982, 988-990,
\* 994-996, 1000-1002, 1027-1029, 1036-1043, 1087-1104, 1139-1141, 1145-1153.
next_stage_TestIsAdvisory(stage, ok) ==
    CASE stage = "rds"             -> IF ok THEN "s3" ELSE "failed"
      [] stage = "s3"              -> IF ok THEN "iam" ELSE "failed"
      [] stage = "iam"             -> IF ok THEN "vpc" ELSE "failed"
      [] stage = "vpc"             -> "dms_bucket"
      [] stage = "dms_bucket"      -> IF ok THEN "dms_instance" ELSE "failed"
      [] stage = "dms_instance"    -> IF ok THEN "dms_source" ELSE "failed"
      [] stage = "dms_source"      -> IF ok THEN "dms_target" ELSE "failed"
      [] stage = "dms_target"      -> IF ok THEN "dms_cleanup" ELSE "failed"
      [] stage = "dms_cleanup"     -> "dms_source_test"
      [] stage = "dms_source_test" -> "dms_target_test"
      [] stage = "dms_target_test" -> IF ok THEN "dms_task" ELSE "failed"
      [] stage = "dms_task"        -> IF ok THEN "dms_start" ELSE "failed"
      [] stage = "dms_start"       -> IF ok THEN "succeeded" ELSE "failed"

next_stage(stage, ok) ==
    CASE stage = "rds"             -> IF ok THEN "s3" ELSE "failed"
      [] stage = "s3"              -> IF ok THEN "iam" ELSE "failed"
      [] stage = "iam"             -> IF ok THEN "vpc" ELSE "failed"
      [] stage = "vpc"             -> "dms_bucket"
      [] stage = "dms_bucket"      -> IF ok THEN "dms_instance" ELSE "failed"
      [] stage = "dms_instance"    -> IF ok THEN "dms_source" ELSE "failed"
      [] stage = "dms_source"      -> IF ok THEN "dms_target" ELSE "failed"
      [] stage = "dms_target"      -> IF ok THEN "dms_cleanup" ELSE "failed"
      [] stage = "dms_cleanup"     -> "dms_source_test"
      [] stage = "dms_source_test" -> IF ok THEN "dms_target_test" ELSE "failed"
      [] stage = "dms_target_test" -> IF ok THEN "dms_task" ELSE "failed"
      [] stage = "dms_task"        -> IF ok THEN "dms_start" ELSE "failed"
      [] stage = "dms_start"       -> IF ok THEN "succeeded" ELSE "failed"

\* The stage at hand has ended.
Staged(stage, ok) ==
    [pl EXCEPT !.pc = next_stage(stage, ok),
               !.trace = Append(@, [stage |-> stage, ok |-> ok])]

\* main.py lines 39-60.  RDS.main calls initialize_database on the endpoint it
\* got and drops what it returns (RDS.py lines 291-293, 305-307);
\* `returned_False` notes the functions that returned False.
stage_rds ==
    /\ pl.pc = "rds"
    /\ rds_stage
    /\ \E initialized \in BOOLEAN :
         pl' = [Staged("rds", rdsrun'.ret # NoEndpoint) EXCEPT
                  !.rds_endpoint = rdsrun'.ret,
                  !.returned_False =
                      IF rdsrun'.ret # NoEndpoint /\ ~initialized
                        THEN @ \cup {"initialize_database"} ELSE @]

\* main.py lines 67-82: a bucket name in the ledger is taken as it is.
stage_s3 ==
    /\ pl.pc = "s3"
    /\ LET existing_bucket == get_resource_data("s3", "bucket_name")
       IN  \E o \in IF existing_bucket # None
                      THEN {S3Outcome(buckets, run_data, <<>>, existing_bucket)}
                      ELSE s3_main(buckets, run_data) :
             /\ buckets' = o.buckets
             /\ run_data' = o.file
             /\ pl' = [Staged("s3", o.ret # None) EXCEPT
                         !.bucket_name = o.ret,
                         !.returned_False =
                             IF \E i \in 1..Len(o.calls) :
                                    o.calls[i] = Call("put_object", FALSE)
                               THEN @ \cup {"create_s3_folder"} ELSE @]
    /\ UNCHANGED <<dmsvars, notDms>>

\* main.py lines 99-102: the ledger is read after iam_main has returned.
roles_created(force_recreate_roles, file, s3_role_arn) ==
    LET existing_s3_role == Load(file).resources.iam.s3_role_arn
    IN  \/ force_recreate_roles
        \/ existing_s3_role = None
        \/ s3_role_arn # existing_s3_role

\* main.py lines 186-194: the seconds slept before the DMS stage.
wait_time(created, endpoint_created) ==
    IF created \/ endpoint_created
      THEN IF created THEN 180 ELSE 60
      ELSE 5

\* main.py lines 84-102; `created_role` notes that the run had a create_role
\* call accepted.
stage_iam ==
    /\ pl.pc = "iam"
    /\ \E force_recreate_roles \in BOOLEAN :
       \E o \in iam_main(account.roles, run_data, force_recreate_roles) :
         LET ok == o.s3_role_arn # None /\ o.vpc_role_arn # None
         IN  /\ account' = [account EXCEPT !.roles = o.roles]
             /\ run_data' = o.file
             /\ pl' = [Staged("iam", ok)
                         EXCEPT !.s3_role_arn = o.s3_role_arn,
                                !.vpc_role_arn = o.vpc_role_arn,
                                !.created_role = Accepted(o.calls, "create_role"),
                                !.roles_created =
                                    ok /\ roles_created(force_recreate_roles,
                                                        o.file, o.s3_role_arn)]
    /\ UNCHANGED <<dmsvars, buckets, underTest, starter, td, rdsvars, probevars>>

\* The VPC a hand-written ledger names under rds.vpc_id; no code writes it.
vpc_id == 1

\* main.py lines 108-194: the S3 gateway endpoint of the VPC the ledger names,
\* then the sleep before the DMS stage.  Nothing here ends the run.  The
\* notes of the IAM stage are dropped once the sleep is chosen.
stage_vpc ==
    /\ pl.pc = "vpc"
    /\ LET vpc == get_resource_data("rds", "vpc_id")
           noted == update_resource_data("vpc", [s3_endpoint_id |-> vpc])
           slept(ok, endpoint_created) ==
               [Staged("vpc", ok) EXCEPT
                  !.wait_time = wait_time(pl.roles_created, endpoint_created),
                  !.roles_created = FALSE,
                  !.created_role = FALSE]
       IN  \/ /\ vpc = None
              /\ pl' = slept(TRUE, FALSE)
              /\ UNCHANGED <<account, run_data>>
           \/ \* describe_vpc_endpoints or create_vpc_endpoint raised
              /\ vpc # None
              /\ pl' = slept(FALSE, FALSE)
              /\ UNCHANGED <<account, run_data>>
           \/ /\ vpc # None
              /\ vpc \in account.vpce
              /\ run_data' = noted
              /\ pl' = slept(TRUE, FALSE)
              /\ UNCHANGED account
           \/ /\ vpc # None
              /\ vpc \notin account.vpce
              /\ account' = [account EXCEPT !.vpce = @ \cup {vpc}]
              /\ run_data' = noted
              /\ \E waited \in BOOLEAN : pl' = slept(waited, TRUE)
    /\ UNCHANGED <<dmsvars, buckets, underTest, starter, td, rdsvars, probevars>>

\* ------------------------------------------------------------ DMS.main
\* Lines 973-983
dms_validate_bucket ==
    /\ pl.pc = "dms_bucket"
    /\ \E b \in check_s3_bucket_exists(buckets, pl.bucket_name) :
         /\ buckets' = b.buckets
         /\ pl' = [Staged("dms_bucket", b.ok) EXCEPT !.wait_time = 0]
    /\ UNCHANGED <<run_data, dmsvars, notDms>>

\* Lines 986-990
dms_instance ==
    /\ pl.pc = "dms_instance"
    /\ create_replication_instance
    /\ pl' = [Staged("dms_instance", inv'.ret # None) EXCEPT
                !.replication_instance_arn = inv'.ret]
    /\ UNCHANGED notDms

\* Lines 992-996
dms_source ==
    /\ pl.pc = "dms_source"
    /\ create_source_endpoint(pl.rds_endpoint.Address)
    /\ pl' = [Staged("dms_source", inv'.ret # None) EXCEPT
                !.source_endpoint_arn = inv'.ret]
    /\ UNCHANGED notDms

\* Lines 998-1002
dms_target ==
    /\ pl.pc = "dms_target"
    /\ create_target_endpoint(pl.bucket_name, pl.s3_role_arn)
    /\ pl' = [Staged("dms_target", inv'.ret # None) EXCEPT
                !.target_endpoint_arn = inv'.ret]
    /\ UNCHANGED notDms

\* The task the run wants is there already.
Desired(t) ==
    /\ t.id = task_id
    /\ ~LinkChanged(t, pl.replication_instance_arn, pl.source_endpoint_arn,
                    pl.target_endpoint_arn)
    /\ t.maps = TableMappings
    /\ t.status # "deleting"

\* Lines 1004-1029: every task between the two endpoints is deleted; an
\* exception ends the clean-up and nothing else.  The service may complete a
\* deletion during the sleep of line 1026.
dms_cleanup ==
    /\ pl.pc = "dms_cleanup"
    /\ LET existing_tasks == {t \in rtasks : /\ t.src = pl.source_endpoint_arn
                                              /\ t.tgt = pl.target_endpoint_arn}
           seen == [pl EXCEPT !.matching = \E t \in rtasks : Desired(t)]
           end(p, ok, apis) ==
               [p EXCEPT !.pc = next_stage("dms_cleanup", ok),
                         !.trace = Append(@, [stage |-> "dms_cleanup", ok |-> ok]),
                         !.issued = @ \cup apis,
                         !.deleted_in = IF apis = {} THEN @
                                        ELSE {t.status : t \in existing_tasks}]
       IN  \/ \* describe_replication_tasks raised
              /\ pl' = end(seen, FALSE, {})
              /\ UNCHANGED rtasks
           \/ /\ existing_tasks = {}
              /\ pl' = end(seen, TRUE, {})
              /\ UNCHANGED rtasks
           \/ \* delete_replication_task raised
              /\ existing_tasks # {}
              /\ pl' = end(seen, FALSE, {"delete_replication_task"})
              /\ UNCHANGED rtasks
           \/ /\ existing_tasks # {}
              /\ rtasks' \in MaybeGone((rtasks \ existing_tasks) \cup
                               {[t EXCEPT !.status = "deleting"]
                                : t \in existing_tasks})
              /\ pl' = end(seen, TRUE, {"delete_replication_task"})
    /\ UNCHANGED <<run_data, rinstances, endpoints, buckets, nextArn, inv, pre,
                   notDms>>

\* What test_connection (lines 639-830) may return: False without the two
\* ARNs; True for an endpoint it finds to be S3 when SKIP_S3_CONNECTION_TEST
\* or ACCEPT_S3_CONNECTION_FAILURES is set (lines 713-715, 749-754);
\* otherwise what the service makes of the test.  Its look at the engine
\* (lines 656-662) takes the endpoint for no S3 endpoint when describe raises.
ConnectionResults(replication_instance_arn, endpoint_arn, es, skip, accept) ==
    IF replication_instance_arn = None \/ endpoint_arn = None
      THEN {FALSE}
      ELSE UNION {IF is_s3 /\ (skip \/ accept) THEN {TRUE} ELSE BOOLEAN
                  : is_s3 \in {FALSE} \cup {e.engine = "s3" : e \in
                                            {x \in es : x.arn = endpoint_arn}}}

\* Lines 1031-1045
dms_source_test ==
    /\ pl.pc = "dms_source_test"
    /\ \E source_connection_success \in
            ConnectionResults(pl.replication_instance_arn, pl.source_endpoint_arn,
                              endpoints, pl.skip, pl.accept) :
         pl' = Staged("dms_source_test", source_connection_success)
    /\ UNCHANGED <<run_data, dmsvars, buckets, notDms>>

\* Lines 1120-1130: the settings the clean-up of a failed S3 test adds.
Optimized(e) ==
    [e EXCEPT !.s3 = ModifiedSettings(@,
        @ \cup {<<"UseTaskStartTimeForFullLoadTimestamp", 1>>,
                <<"EnableStatistics", 1>>})]

\* 's3' in EngineName.lower(), for the engine names there are
s3_in(engine) == lower(engine) = "s3"

\* A variant of lines 1086-1104 that lets the tolerance for S3 cover every
\* endpoint.
proceed_after_test_AnyEngine(target_connection_success, is_s3_endpoint, accept, continue_anyway) ==
    \/ target_connection_success
    \/ accept
    \/ lower(continue_anyway) = "yes"

\* Lines 1086-1104: whether main goes on after the tests of the target.
proceed_after_test(target_connection_success, is_s3_endpoint, accept, continue_anyway) ==
    \/ target_connection_success
    \/ is_s3_endpoint /\ (accept \/ lower(continue_anyway) = "yes")

\* Lines 1047-1135: up to three tests of the target, none when the endpoint
\* is found to be S3 and ACCEPT_S3_CONNECTION_FAILURES is set.  A failure is
\* passed over for an S3 endpoint when that variable is set or the operator
\* answers yes, and then the endpoint's settings are extended.  `target_s3`
\* notes whether the endpoint listed under the ARN is an S3 endpoint.
dms_target_test ==
    /\ pl.pc = "dms_target_test"
    /\ LET found == {e \in endpoints : e.arn = pl.target_endpoint_arn}
       IN  \E is_s3_endpoint \in {FALSE} \cup {s3_in(e.engine) : e \in found} :
           \E tested \in
                IF is_s3_endpoint /\ pl.accept THEN {"skipped"}
                ELSE {IF r THEN "successful" ELSE "failed"
                      : r \in ConnectionResults(pl.replication_instance_arn,
                                                pl.target_endpoint_arn, endpoints,
                                                pl.skip, pl.accept)} :
           \E continue_anyway \in {"yes", "no"} :
             LET target_connection_success == tested # "failed"
                 proceed == proceed_after_test(target_connection_success,
                                is_s3_endpoint, pl.accept, continue_anyway)
             IN  /\ pl' = [Staged("dms_target_test", proceed) EXCEPT
                             !.target_test = tested,
                             !.target_s3 = \E e \in found : e.engine = "s3"]
                 /\ IF proceed /\ ~target_connection_success /\ is_s3_endpoint
                      THEN \/ endpoints' = (endpoints \ found)
                                             \cup {Optimized(e) : e \in found}
                           \/ UNCHANGED endpoints
                      ELSE UNCHANGED endpoints
    /\ UNCHANGED <<run_data, rtasks, rinstances, buckets, nextArn, inv, pre,
                   notDms>>

\* Lines 1137-1141
dms_task ==
    /\ pl.pc = "dms_task"
    /\ create_replication_task(pl.replication_instance_arn,
                               pl.source_endpoint_arn, pl.target_endpoint_arn)
    /\ pl' = [Staged("dms_task", inv'.ret # None) EXCEPT
                !.task_arn = inv'.ret,
                !.issued = @ \cup {inv'.calls[i].api : i \in 1..Len(inv'.calls)}]
    /\ UNCHANGED notDms

\* Lines 1143-1153: the start command, then the rounds of the monitoring
\* loop; what start_replication_task returns ends the run.
dms_start ==
    /\ pl.pc = "dms_start"
    /\ start_replication_task(pl.task_arn)
    /\ LET sent == [pl EXCEPT !.issued = @ \cup
                       (IF starter'.cmds # <<>>
                          THEN {"start_replication_task"} ELSE {})]
       IN  pl' = IF starter'.pc = "done"
                   THEN [sent EXCEPT
                           !.pc = next_stage("dms_start", starter'.ret),
                           !.trace = Append(@, [stage |-> "dms_start",
                                                ok |-> starter'.ret])]
                   ELSE sent

dms_monitor ==
    /\ pl.pc = "dms_start"
    /\ monitor(pl.task_arn)
    /\ pl' = IF starter'.pc = "done"
               THEN Staged("dms_start", starter'.ret) ELSE pl

\* The full load of a started task comes to its end.
FullLoadFinishes ==
    /\ pl.pc = "dms_start"
    /\ \E t \in rtasks :
         /\ t.status \in {"starting", "running"}
         /\ rtasks' = (rtasks \ {t}) \cup
                        {[t EXCEPT !.status = "stopped",
                                   !.reason = <<"Stop Reason ", "FULL_LOAD_ONLY",
                                                "_FINISHED">>]}
    /\ UNCHANGED <<starter, notStart, pl>>

\* A first run, or a run after one that went through a minute earlier; the
\* ledger of the latter may name a VPC.
FirstRunLedger ==
    LET rds == Updated(ProvisionedLedger, "rds",
                   [instance_id |-> DBInstanceIdentifier(0),
                    endpoint |-> endpoint_str(EndpointOf(
                                    DbInstance(DBInstanceIdentifier(0), "available")))])
        s3  == Updated(rds, "s3", [bucket_name |-> dms_target_bucket,
                                   folder |-> folder_name])
    IN  Updated(s3, "iam", [s3_role_arn |-> role_arn(S3Role),
                            vpc_role_arn |-> role_arn(VpcRole)])

RerunTasks ==
    {{}} \cup {{Task(1, st, 1, 1, 2, TableMappings)} : st \in {"ready", "running"}}
    \cup {{[Task(1, "stopped", 1, 1, 2, TableMappings) EXCEPT
              !.reason = <<"Stop Reason ", "FULL_LOAD_ONLY", "_FINISHED">>]}}

\* The endpoints of the earlier run; the target may since have been replaced
\* by hand with an endpoint of another engine under the same identifier.
RerunEndpoints ==
    LET src == Endpoint(source_endpoint_id, 1, "sqlserver", "active",
                        DBInstanceIdentifier(0), {})
    IN  {{src, Endpoint(target_endpoint_id, 2, "s3", "active", None,
                        s3_settings(dms_target_bucket, role_arn(S3Role)))},
         {src, Endpoint(target_endpoint_id, 2, "postgres", "active", 1, {})}}

InitPipeline ==
    /\ underTest = "pipeline"
    /\ inv = NoCall
    /\ pre = NoCall
    /\ lg = NoLedgerCall
    /\ starter = NotStarted
    /\ td = NoTeardown
    /\ rdsrun = NoRun
    /\ pl \in {[NotRun EXCEPT !.skip = s, !.accept = a] : s, a \in BOOLEAN}
    /\ NoProbe
    /\ \/ /\ run_data = [file |-> "absent", json |-> DefaultRunData]
          /\ rtasks = {}
          /\ rinstances = {}
          /\ endpoints = {}
          /\ buckets = {}
          /\ dbs = {}
          /\ clock = 0
          /\ account = NoAccount
          /\ nextArn = 1
       \/ /\ run_data \in {FirstRunLedger,
                           Updated(FirstRunLedger, "rds", [vpc_id |-> vpc_id])}
          /\ rtasks \in RerunTasks
          /\ rinstances = {Instance(1, "available")}
          /\ endpoints \in RerunEndpoints
          /\ buckets = {Bucket(dms_target_bucket, TRUE)}
          /\ dbs = {DbInstance(DBInstanceIdentifier(0), "available")}
          /\ clock = 1
          /\ account \in {[roles |-> {S3Role, VpcRole}, vpce |-> v]
                          : v \in {{}, {vpc_id}}}
          /\ nextArn = 3

NextPipeline ==
    \/ stage_rds
    \/ stage_s3
    \/ stage_iam
    \/ stage_vpc
    \/ dms_validate_bucket
    \/ dms_instance
    \/ dms_source
    \/ dms_target
    \/ dms_cleanup
    \/ dms_source_test
    \/ dms_target_test
    \/ dms_task
    \/ dms_start
    \/ dms_monitor
    \/ FullLoadFinishes
    \/ RemoteTaskProgress
    \/ RemoteInstanceProgress
    \/ RemoteDbProgress

SpecPipeline == InitPipeline /\ [][NextPipeline]_vars

\* ------------------------------------------------------- utils: the ledger
\* The updates the programs make (RDS.py:95, S3.py:65 and 98, IAM.py:290,
\* DMS.py:189 and 267, main.py:143), with identifiers 1 and 2.
LedgerUpdates ==
    {<<"rds", [instance_id |-> 1, endpoint |-> 1]>>,
     <<"s3", [bucket_name |-> 1]>>,
     <<"s3", [folder |-> 1]>>,
     <<"vpc", [s3_endpoint_id |-> 1]>>}
    \cup {<<"iam", [s3_role_arn |-> v, vpc_role_arn |-> 2]>> : v \in {None, 1}}
    \cup {<<"dms", [replication_instance_id |-> 1,
                    replication_instance_arn |-> v]>> : v \in {1, 2}}
    \cup {<<"dms", [source_endpoint_id |-> 1, source_endpoint_arn |-> 1]>>}

LedgerKinds == {"rds", "s3", "iam", "dms", "vpc", "ec2"}
LedgerKeys == {"instance_id", "bucket_name", "s3_role_arn", "s3_endpoint_id",
               "replication_instance_arn", "replication_task_id"}

\* What run_data.json may hold when a program starts: nothing, text that is
\* no JSON, bytes that are no text, or what an earlier run saved.
LedgerFiles ==
    {[file |-> k, json |-> DefaultRunData] : k \in {"absent", "invalid", "undecodable"}}
    \cup {save_run_data(DefaultRunData), ProvisionedLedger}

\* utils.get_resource_data(resource_type, resource_key), lines 73-93
ledger_get(resource_type, resource_key) ==
    /\ underTest = "ledger"
    /\ lg' = [lg EXCEPT !.op = "get_resource_data",
                        !.resource_type = resource_type,
                        !.resource_key = resource_key,
                        !.resource_data = <<>>,
                        !.raised = load_raises(run_data),
                        !.ret = IF load_raises(run_data) THEN None
                                ELSE get_resource_data(resource_type, resource_key),
                        !.before = run_data]
    /\ UNCHANGED run_data

\* utils.update_resource_data(resource_type, resource_data), lines 40-71
ledger_update(resource_type, resource_data) ==
    /\ underTest = "ledger"
    /\ lg' = [lg EXCEPT !.op = "update_resource_data",
                        !.resource_type = resource_type,
                        !.resource_key = "-",
                        !.resource_data = resource_data,
                        !.raised = load_raises(run_data),
                        !.ret = None,
                        !.before = run_data]
    /\ run_data' = IF load_raises(run_data) THEN run_data
                   ELSE update_resource_data(resource_type, resource_data)

notLedger == <<remote, nextArn, inv, pre, underTest, starter, td, rdsvars,
               account, pl, tc, conn>>

InitLedger ==
    /\ underTest = "ledger"
    /\ run_data \in LedgerFiles
    /\ rtasks = {}
    /\ rinstances = {}
    /\ endpoints = {}
    /\ buckets = {}
    /\ nextArn = 2
    /\ inv = NoCall
    /\ pre = NoCall
    /\ lg = NoLedgerCall
    /\ starter = NotStarted
    /\ td = NoTeardown
    /\ NoRds
    /\ NoPipeline
    /\ NoProbe

NextLedger ==
    \/ \E k \in LedgerKinds, key \in LedgerKeys :
          ledger_get(k, key) /\ UNCHANGED notLedger
    \/ \E u \in LedgerUpdates :
          ledger_update(u[1], u[2]) /\ UNCHANGED notLedger

SpecLedger == InitLedger /\ [][NextLedger]_vars

\* Two pipeline runs share one run_data.json.  update_resource_data is two
\* steps of a run: load_run_data (line 47), then the merge and save_run_data
\* (lines 50-69); nothing keeps the other run out in between.  `written` holds
\* the latest value each returned update wrote under a key, `stale` says that
\* some save wrote a copy loaded before the file was last rewritten.
RunUpdates(p) ==
    IF p = 1
      THEN {u \in LedgerUpdates : u[1] = "dms"}
      ELSE {u \in LedgerUpdates : u[1] \in {"s3", "vpc"}}

run_load(p, resource_type, resource_data) ==
    /\ underTest = "race"
    /\ lg.runs[p].pc = "idle"
    /\ lg' = [lg EXCEPT !.runs[p] = [pc |-> "loaded",
                                     resource_type |-> resource_type,
                                     resource_data |-> resource_data,
                                     loaded |-> run_data]]
    /\ UNCHANGED run_data

run_save(p) ==
    /\ underTest = "race"
    /\ lg.runs[p].pc = "loaded"
    /\ LET r == lg.runs[p]
       IN  /\ run_data' = save_run_data(Merged(Load(r.loaded), r.resource_type,
                                               r.resource_data))
           /\ lg' = [lg EXCEPT
                      !.runs[p].pc = "idle",
                      !.written =
                          {w \in @ : ~(/\ w[1] = r.resource_type
                                       /\ w[2] \in DOMAIN r.resource_data)}
                          \cup {<<r.resource_type, key, r.resource_data[key]>>
                                : key \in DOMAIN r.resource_data},
                      !.stale = @ \/ run_data # r.loaded]

InitLedgerRace ==
    /\ underTest = "race"
    /\ run_data \in {[file |-> "absent", json |-> DefaultRunData],
                     save_run_data(DefaultRunData)}
    /\ rtasks = {}
    /\ rinstances = {}
    /\ endpoints = {}
    /\ buckets = {}
    /\ nextArn = 2
    /\ inv = NoCall
    /\ pre = NoCall
    /\ lg = NoLedgerCall
    /\ starter = NotStarted
    /\ td = NoTeardown
    /\ NoRds
    /\ NoPipeline
    /\ NoProbe

NextLedgerRace ==
    \/ \E p \in Runs : \E u \in RunUpdates(p) :
          run_load(p, u[1], u[2]) /\ UNCHANGED notLedger
    \/ \E p \in Runs : run_save(p) /\ UNCHANGED notLedger

SpecLedgerRace == InitLedgerRace /\ [][NextLedgerRace]_vars

\* ------------------------------------------------------------- claims
\* The remote calls of the DMS reconcilers that change a DMS resource.
MutatingApis ==
    {"create_replication_instance", "create_endpoint", "modify_endpoint",
     "delete_endpoint", "create_replication_task", "modify_replication_task",
     "delete_replication_task", "stop_replication_task"}

Reconcilers ==
    {"create_replication_instance", "create_source_endpoint",
     "create_target_endpoint", "create_replication_task"}

Count(calls, api) == Cardinality({i \in 1..Len(calls) : calls[i].api = api})

\* C1: idempotence of the DMS reconcilers.  When a reconciler that returned
\* an ARN is invoked again with the same arguments and the remote state did
\* not change in between, the second invocation issues no mutating call for
\* its resource and returns the same ARN.
C1_Idempotent ==
    (/\ inv.op \in Reconcilers
     /\ pre.op = inv.op
     /\ pre.args = inv.args
     /\ pre.ret # None)
    => /\ \A i \in 1..Len(inv.calls) : inv.calls[i].api \notin MutatingApis
       /\ inv.ret = pre.ret

\* C2: recreate on incompatible change.  An invocation of
\* create_replication_task that finds a task listed whose source, target or
\* instance ARN differs from the desired one issues delete_replication_task
\* and after it create_replication_task, and no modify_replication_task.
DeleteThenCreate(calls) ==
    \E i \in 1..Len(calls) : \E j \in (i + 1)..Len(calls) :
        /\ calls[i].api = "delete_replication_task"
        /\ calls[j].api = "create_replication_task"

C2_RecreateOnLinkChange ==
    [][\A a \in TaskArgs :
         (/\ a[1] # None
          /\ \E t \in TasksById(rtasks) : LinkChanged(t, a[1], a[2], a[3])
          /\ create_replication_task(a[1], a[2], a[3])
          /\ Accepted(inv'.calls, "describe_replication_tasks"))
         => /\ DeleteThenCreate(inv'.calls)
            /\ ~Issued(inv'.calls, "modify_replication_task")]_vars

\* C3: convergence under drift.  When the reconciler of the S3 target
\* endpoint or of the replication task had its modify call accepted, it
\* issued exactly one modify call, no delete and no create call, and the
\* remote configuration equals the desired descriptor.
C3_ConvergeByModify ==
    /\ (inv.op = "create_target_endpoint"
        /\ Accepted(inv.calls, "modify_endpoint"))
       => /\ Count(inv.calls, "modify_endpoint") = 1
          /\ ~Issued(inv.calls, "delete_endpoint")
          /\ ~Issued(inv.calls, "create_endpoint")
          /\ \E e \in EndpointsById(endpoints, target_endpoint_id) :
                 /\ e.arn = inv.ret
                 /\ ~settings_changed(e.s3, s3_settings(inv.args[1], inv.args[2]))
    /\ (inv.op = "create_replication_task"
        /\ Accepted(inv.calls, "modify_replication_task"))
       => /\ Count(inv.calls, "modify_replication_task") = 1
          /\ ~Issued(inv.calls, "delete_replication_task")
          /\ ~Issued(inv.calls, "create_replication_task")
          /\ \E t \in TasksById(rtasks) :
                 /\ t.arn = inv.ret
                 /\ t.maps = TableMappings
                 /\ ~LinkChanged(t, inv.args[1], inv.args[2], inv.args[3])

\* C3's case: a running task whose table mappings differed was stopped and
\* modified in place.
C3_Witness ==
    /\ inv.op = "create_replication_task"
    /\ Accepted(inv.calls, "stop_replication_task")
    /\ Accepted(inv.calls, "modify_replication_task")


\* The start type the specification's table gives for a task state.
TableStartType(status, reason) ==
    CASE status \in {"ready", "Ready"} -> <<"start-replication">>
      [] status \in {"stopped", "STOPPED"}
         /\ reason = <<"Stop Reason ", "FULL_LOAD_ONLY", "_FINISHED">>
           -> <<"reload-target">>
      [] status \in {"stopped", "STOPPED"}
         /\ reason # <<"Stop Reason ", "FULL_LOAD_ONLY", "_FINISHED">>
           -> <<"resume-processing">>
      [] status = "running" -> <<>>
      [] OTHER -> <<"start-replication">>

\* C4: start-type selection.  Once start_replication_task has observed the
\* task state, the start commands it sent are: none for running, and for
\* every other state exactly one, of type start-replication for ready,
\* reload-target for stopped with a stop reason containing
\* FULL_LOAD_ONLY_FINISHED, resume-processing for stopped with another stop
\* reason, start-replication for any other state; a running task takes it
\* directly to monitoring.
C4_StartType ==
    starter.seen # Unseen
    => /\ starter.cmds = TableStartType(starter.seen.status, starter.seen.reason)
       /\ starter.seen.status = "running"
          => \/ starter.pc = "monitor"
             \/ starter.pc = "done" /\ starter.obs # Unseen

C4_Witness ==
    /\ starter.seen.status = "STOPPED"
    /\ starter.seen.reason = <<"Stop Reason ", "FULL_LOAD_ONLY", "_FINISHED">>
    /\ starter.cmds = <<"reload-target">>
    /\ starter.pc = "monitor"

\* C5: monitoring outcome.  start_replication_task returns success only when
\* a poll observed the task stopped with the full-load-finished stop reason;
\* it returns failure when a poll observed failed, stopped with another stop
\* reason, or no task; after a poll that observed any other status it has
\* not returned.
C5_MonitorOutcome ==
    LET o        == starter.obs
        stopped  == o.status \in {"stopped", "STOPPED"}
        finished == o.reason = <<"Stop Reason ", "FULL_LOAD_ONLY", "_FINISHED">>
    IN  /\ (starter.pc = "done" /\ starter.ret) => (stopped /\ finished)
        /\ (o.status \in {"failed", "missing"} \/ (stopped /\ ~finished))
           => (starter.pc = "done" /\ ~starter.ret)
        /\ (o.status \in StartStatuses \ {"stopped", "STOPPED", "failed"})
           => starter.pc = "monitor"

C5_Witness ==
    /\ starter.pc = "done"
    /\ starter.ret
    /\ starter.obs.status = "stopped"

\* C6: teardown ordering, as stated.  delete_di issues no delete_endpoint
\* call while a replication task exists remotely, and no
\* delete_replication_instance call while an endpoint exists remotely.
C6_TeardownOrder ==
    [][/\ (td.pc = "endpoints_delete" /\ "delete_endpoint" \in td'.issued)
          => rtasks = {}
       /\ (td.pc = "instances_delete"
           /\ "delete_replication_instance" \in td'.issued)
          => endpoints = {}]_vars

\* C6, amended: unless the verification at the head of the stage had its
\* listing raise or ran out of time, delete_di issues no delete_endpoint call
\* while a replication task exists remotely, and no
\* delete_replication_instance call while an endpoint exists remotely.
C6_TeardownOrderUnlessTimeout ==
    [][/\ (td.pc = "endpoints_delete" /\ "delete_endpoint" \in td'.issued
           /\ td.check = "empty")
          => rtasks = {}
       /\ (td.pc = "instances_delete"
           /\ "delete_replication_instance" \in td'.issued
           /\ td.check = "empty")
          => endpoints = {}]_vars

\* C6's case: the endpoints were deleted after the verification at the
\* head of delete_endpoints found no task.
C6_Witness ==
    /\ td.pc = "endpoints_wait"
    /\ "delete_endpoint" \in td.issued
    /\ td.check = "empty"
    /\ \E e \in endpoints : e.status = "deleting"

\* The ARN the ledger holds under `key` is the one the accepted create call
\* of the latest invocation handed out.
Persisted(key) == get_resource_data("dms", key) = nextArn - 1

\* C7: ledger durability.  Once a create call of a reconciler was accepted
\* by the service, the ledger holds the identifier of the created resource
\* when the reconciler has returned.
C7_LedgerDurable ==
    /\ Accepted(inv.calls, "create_replication_instance")
       => Persisted("replication_instance_arn")
    /\ (inv.op = "create_source_endpoint" /\ Accepted(inv.calls, "create_endpoint"))
       => Persisted("source_endpoint_arn")
    /\ (inv.op = "create_target_endpoint" /\ Accepted(inv.calls, "create_endpoint"))
       => Persisted("target_endpoint_arn")
    /\ Accepted(inv.calls, "create_replication_task")
       => Persisted("replication_task_arn")

\* C11 (bounded polling): test_connection makes at most max_retries + 1 rounds
\* of at most max_poll_attempts status polls each, and whatever the service
\* does with the connection, a call that was made returns.
C11_BoundedPolling ==
    /\ [](tc.retry <= max_retries /\ tc.poll_attempts <= max_poll_attempts)
    /\ <>(tc.pc = "done")

\* The last round used up its polls on a connection that stayed in testing.
C11_Witness ==
    /\ tc.pc = "done"
    /\ tc.why = "timeout"
    /\ tc.retry = max_retries
    /\ tc.poll_attempts = max_poll_attempts
    /\ tc.status = "testing"

\* C12 (timeout is distinct from failure): what test_connection returns when
\* its polls ran out without a terminal status differs from what it returns
\* for a connection seen failed, and from what it returns for a successful one.
C12_TimeoutDistinct ==
    (tc.pc = "done" /\ tc.why = "timeout")
        => tc.ret \notin {return_failed, return_successful}

\* C15 (fail-fast of the prober): once a poll of test_connection has met the
\* status failed, deleting or deleted, and no tolerance for S3 applies, the
\* call has returned failure: no round and no poll follows.
C15_FailFast ==
    tc.saw_failure => (tc.pc = "done" /\ tc.ret = return_failed)

\* C13 (a failed test of an endpoint that is not S3 is fatal): when the test
\* of the source endpoint failed, or all tests of a target endpoint that is
\* no S3 endpoint failed, DMS main has returned failure and the run issued
\* neither create_replication_task nor start_replication_task, whatever
\* SKIP_S3_CONNECTION_TEST and ACCEPT_S3_CONNECTION_FAILURES hold.
C13_NonS3Fatal ==
    (\/ \E i \in 1..Len(pl.trace) :
           pl.trace[i] = [stage |-> "dms_source_test", ok |-> FALSE]
     \/ pl.target_test = "failed" /\ ~pl.target_s3)
    => /\ pl.pc = "failed"
       /\ "create_replication_task" \notin pl.issued
       /\ "start_replication_task" \notin pl.issued

\* All tests of a target that is no S3 endpoint failed while
\* ACCEPT_S3_CONNECTION_FAILURES was set.
C13_Witness ==
    /\ pl.target_test = "failed"
    /\ ~pl.target_s3
    /\ pl.target_endpoint_arn # None
    /\ \E e \in endpoints : e.arn = pl.target_endpoint_arn /\ e.engine # "s3"
    /\ pl.accept
    /\ pl.pc = "failed"

\* The target endpoint is an S3 endpoint.
TargetIsS3 ==
    \E e \in endpoints : e.arn = pl.target_endpoint_arn /\ e.engine = "s3"

\* C14 (tolerance for S3): with ACCEPT_S3_CONNECTION_FAILURES set and an S3
\* target endpoint, the stage that tests the target never ends the run: DMS
\* main goes on to create the task.
C14_S3Tolerance ==
    \A i \in 1..Len(pl.trace) :
        (pl.trace[i].stage = "dms_target_test" /\ pl.accept /\ TargetIsS3)
            => pl.trace[i].ok

\* C18 (deletion confirmed before recreation): within one call of a DMS
\* reconciler no create call follows a delete call that failed.
C18_NoCreateAfterFailedDelete ==
    \A i, j \in 1..Len(inv.calls) :
        (/\ i < j
         /\ inv.calls[i].api \in {"delete_replication_task", "delete_endpoint"}
         /\ ~inv.calls[i].ok)
        => inv.calls[j].api \notin {"create_replication_task", "create_endpoint"}

\* C19 (persist on reuse): when create_replication_instance or
\* create_source_endpoint returns the ARN of a resource it found existing, the
\* ledger holds that ARN.
C19_PersistOnReuse ==
    /\ (/\ inv.op = "create_replication_instance"
        /\ inv.ret # None
        /\ ~Accepted(inv.calls, "create_replication_instance"))
       => get_resource_data("dms", "replication_instance_arn") = inv.ret
    /\ (/\ inv.op = "create_source_endpoint"
        /\ inv.ret # None
        /\ ~Accepted(inv.calls, "create_endpoint"))
       => get_resource_data("dms", "source_endpoint_arn") = inv.ret

\* C20 (replication instance readiness): whenever create_replication_instance
\* returns an ARN, the instance of that ARN is in status available at the
\* return.
C20_ReturnedInstanceAvailable ==
    [][(/\ underTest = "instance"
        /\ inv' # inv
        /\ inv'.op = "create_replication_instance"
        /\ inv'.ret # None)
       => \E i \in rinstances' : i.arn = inv'.ret /\ i.status = "available"]_vars

\* C21 (source endpoint follows the RDS record): whenever
\* create_source_endpoint returns an ARN, the endpoint of that ARN points at
\* the rds_endpoint the call was given.
C21_SourceFollowsRds ==
    [][(/\ inv' # inv
        /\ inv'.op = "create_source_endpoint"
        /\ inv'.ret # None)
       => \E e \in endpoints' : e.arn = inv'.ret /\ e.server = inv'.args[1]]_vars

\* C22 (source endpoint found but broken): when create_source_endpoint is
\* shown an existing source endpoint that is not active, it issues
\* delete_endpoint for it and then create_endpoint.
C22_BrokenSourceRecreated ==
    [][(/\ inv' # inv
        /\ inv'.op = "create_source_endpoint"
        /\ inv'.calls # <<>>
        /\ inv'.calls[1].ok
        /\ \E e \in EndpointsById(endpoints, source_endpoint_id) :
               e.status # "active")
       => /\ Issued(inv'.calls, "delete_endpoint")
          /\ Issued(inv'.calls, "create_endpoint")]_vars

\* C23 (error surfacing): a describe call that raised although the resource
\* exists, which is no not-found result, is not followed by a create call of
\* the same reconciler.
C23_ErrorSurfaced ==
    [][(/\ inv' # inv
        /\ \/ /\ inv'.op = "create_replication_instance"
              /\ rinstances # {}
              /\ Call("describe_replication_instances", FALSE)
                    \in {inv'.calls[i] : i \in 1..Len(inv'.calls)}
           \/ /\ inv'.op = "create_target_endpoint"
              /\ EndpointsById(endpoints, target_endpoint_id) # {}
              /\ Call("describe_endpoints", FALSE)
                    \in {inv'.calls[i] : i \in 1..Len(inv'.calls)})
       => /\ ~Issued(inv'.calls, "create_replication_instance")
          /\ ~Issued(inv'.calls, "create_endpoint")]_vars

\* C24 (ledger default skeleton): get_resource_data on a ledger file that is
\* absent or holds no valid JSON raises nothing and returns null.
C24_DefaultSkeleton ==
    (lg.op = "get_resource_data" /\ lg.before.file # "ok")
    => (~lg.raised /\ lg.ret = None)

\* C25 (ledger update frame and read-back): after update_resource_data(kind,
\* data) has returned, the persisted ledger differs from the one loaded only
\* in the keys of data inside the record kind (and in last_run), and
\* get_resource_data(kind, key) returns data[key] for each key of data.
C25_UpdateFrame ==
    (lg.op = "update_resource_data" /\ ~lg.raised)
    => LET old  == Load(lg.before).resources
           new  == Load(run_data).resources
           kind == lg.resource_type
           data == lg.resource_data
           was  == IF kind \in DOMAIN old THEN DOMAIN old[kind] ELSE {}
       IN  /\ run_data.file = "ok"
           /\ DOMAIN new = DOMAIN old \cup {kind}
           /\ \A r \in DOMAIN old \ {kind} : new[r] = old[r]
           /\ DOMAIN new[kind] = was \cup DOMAIN data
           /\ \A key \in was \ DOMAIN data : new[kind][key] = old[kind][key]
           /\ \A key \in DOMAIN data : get_resource_data(kind, key) = data[key]

\* An update of the dms record of a ledger that held other dms keys and was
\* followed by the creation of the vpc record.
C25_Witness ==
    /\ lg.op = "update_resource_data"
    /\ ~lg.raised
    /\ lg.resource_type = "vpc"
    /\ "vpc" \notin DOMAIN Load(lg.before).resources
    /\ {"replication_instance_arn", "source_endpoint_arn"}
          \subseteq DOMAIN Load(lg.before).resources.dms
    /\ Load(lg.before).resources.dms.replication_instance_arn = 2
    /\ Load(lg.before).resources.dms.source_endpoint_arn = 1
    /\ get_resource_data("dms", "replication_instance_arn") = 2
    /\ get_resource_data("vpc", "s3_endpoint_id") = 1

\* C26 (ledger race): as long as no run saved a copy of the ledger that
\* another run had rewritten since it was loaded, every key written is in the
\* persisted ledger; two runs that interleave load and save lose one.
C26_LostOnlyByInterleaving ==
    ~lg.stale => \A w \in lg.written : get_resource_data(w[1], w[2]) = w[3]

\* Both runs have returned from update_resource_data, and a key one of them
\* wrote is absent from the persisted ledger.
C26_Witness ==
    /\ \A p \in Runs : lg.runs[p].pc = "idle"
    /\ \E w \in lg.written :
         LET res == Load(run_data).resources
         IN  w[1] \notin DOMAIN res \/ w[2] \notin DOMAIN res[w[1]]

\* C27 (no automatic rollback): the step in which a stage fails leaves the
\* remote resources and the ledger records of the stages that went through
\* earlier in the run as they were.
C27_NoRollback ==
    [][(pl.pc \notin {"failed", "succeeded"} /\ pl'.pc = "failed")
       => LET done == {pl.trace[i].stage : i \in DOMAIN pl.trace}
              old  == Load(run_data).resources
              new  == Load(run_data').resources
              kept(kind, key) ==
                  key \in DOMAIN old[kind]
                  => (key \in DOMAIN new[kind] /\ new[kind][key] = old[kind][key])
          IN  /\ "rds" \in done => (dbs' = dbs /\ new.rds = old.rds)
              /\ "s3" \in done =>
                    /\ \A b \in buckets : \E c \in buckets' :
                          c.name = b.name /\ (b.folder => c.folder)
                    /\ new.s3 = old.s3
              /\ "iam" \in done => (account'.roles = account.roles /\ new.iam = old.iam)
              /\ "vpc" \in done => account'.vpce = account.vpce
              /\ "dms_instance" \in done =>
                    (rinstances' = rinstances /\ kept("dms", "replication_instance_arn"))
              /\ "dms_source" \in done =>
                    /\ EndpointsById(endpoints', source_endpoint_id)
                         = EndpointsById(endpoints, source_endpoint_id)
                    /\ kept("dms", "source_endpoint_arn")
              /\ "dms_target" \in done =>
                    /\ EndpointsById(endpoints', target_endpoint_id)
                         = EndpointsById(endpoints, target_endpoint_id)
                    /\ kept("dms", "target_endpoint_arn")
              /\ "dms_task" \in done => rtasks' = rtasks]_vars

\* The run created its task and then failed to start it; everything it
\* created is still there.
C27_Witness ==
    /\ pl.pc = "failed"
    /\ pl.trace[Len(pl.trace)] = [stage |-> "dms_start", ok |-> FALSE]
    /\ "create_replication_task" \in pl.issued
    /\ \E t \in rtasks : t.arn = pl.task_arn
    /\ \E e \in endpoints : e.arn = pl.target_endpoint_arn
    /\ \E i \in rinstances : i.arn = pl.replication_instance_arn
    /\ dbs # {}
    /\ buckets # {}

\* C28 (teardown confirmation gate), as the code has it: delete_di goes on to
\* its stages only after an answer that reads yes in whatever letter case;
\* after any other answer it exits with status 0, and the step that takes the
\* answer issues no call and changes neither a remote resource nor the ledger.
C28_ConfirmationGate ==
    /\ [](td.pc \notin {"confirm", "cancelled"} => lower(td.confirmation) = "yes")
    /\ [](td.pc \in {"confirm", "cancelled"} => td.issued = {})
    /\ [](td.pc = "cancelled" => (lower(td.confirmation) # "yes" /\ td.exit = 0))
    /\ [][td.pc = "confirm" /\ td'.pc # "confirm"
          => UNCHANGED <<run_data, remote, dbs, account>>]_vars

\* The operator answered no while tasks, endpoints and an instance existed.
C28_Witness ==
    /\ td.pc = "cancelled"
    /\ td.confirmation = "no"
    /\ rtasks # {}
    /\ endpoints # {}
    /\ rinstances # {}
    /\ dbs # {}

\* C28 as stated: delete_di goes on to its stages only after the answer
\* `yes`.
C28_OnlyOnYes == td.pc \notin {"confirm", "cancelled"} => td.confirmation = "yes"

\* C29 (clear_di preserves instances): no step of a run of clear_di changes
\* the RDS instances or the DMS replication instances or removes a bucket, and
\* the calls it issues are stop and delete calls for tasks, delete calls for
\* endpoints and delete_objects.
C29_InstancesPreserved ==
    /\ [][/\ dbs' = dbs
          /\ rinstances' = rinstances
          /\ {b.name : b \in buckets'} = {b.name : b \in buckets}]_vars
    /\ [](td.issued \subseteq {"stop_replication_task", "delete_replication_task",
                               "delete_endpoint", "delete_objects"})

\* clear_di has run through: the task and the endpoints are gone, the objects
\* are deleted, the bucket and both instances are there.
C29_Witness ==
    /\ td.pc = "done"
    /\ td.issued = {"stop_replication_task", "delete_replication_task",
                    "delete_endpoint", "delete_objects"}
    /\ rtasks = {}
    /\ endpoints = {}
    /\ buckets = {Bucket(dms_target_bucket, FALSE)}
    /\ rinstances # {}
    /\ dbs # {}

\* C30 (sub-step failures of the first two stages): once initialize_database
\* or create_s3_folder has returned False, the run is at its failed end.
C30_SubstepAborts == pl.returned_False # {} => pl.pc = "failed"

\* C31 (modify fallback of the S3 target endpoint): when create_target_endpoint
\* finds the endpoint with other settings, modify_endpoint raises and the
\* delete call is accepted, the call returns the ARN of an endpoint it
\* created, which is not the deleted one's, and the ledger holds that ARN.
C31_FallbackReplaces ==
    [][(/\ inv' # inv
        /\ inv'.op = "create_target_endpoint"
        /\ Issued(inv'.calls, "modify_endpoint")
        /\ ~Accepted(inv'.calls, "modify_endpoint")
        /\ Accepted(inv'.calls, "delete_endpoint"))
       => /\ Accepted(inv'.calls, "create_endpoint")
          /\ inv'.ret # None
          /\ \A e \in EndpointsById(endpoints, target_endpoint_id) :
                 /\ inv'.ret # e.arn
                 /\ get_resource_data("dms", "target_endpoint_arn")' # e.arn
          /\ get_resource_data("dms", "target_endpoint_arn")' = inv'.ret]_vars

\* C39 (immediate target test): a call of create_target_endpoint that set the
\* endpoint up while the ledger records a replication instance ARN has run
\* test_connection before it returned.
C39_ImmediateTest ==
    [][(/\ inv' # inv
        /\ inv'.op = "create_target_endpoint"
        /\ inv'.ret # None
        /\ get_resource_data("dms", "replication_instance_arn") # None)
       => Issued(inv'.calls, "test_connection")]_vars

\* C32 (IAM recreate path): when create_dms_role or create_dms_vpc_role issues
\* create_role and a role of that name existed when it was called, the call
\* has before that detached the policy without a failure and had delete_role
\* accepted.
C32_DeleteBeforeCreate ==
    [][(/\ inv' # inv
        /\ \/ inv'.op = "create_dms_role" /\ S3Role \in account.roles
           \/ inv'.op = "create_dms_vpc_role" /\ VpcRole \in account.roles
        /\ Issued(inv'.calls, "create_role"))
       => /\ Accepted(inv'.calls, "delete_role")
          /\ Call("detach_role_policy", FALSE)
                \notin {inv'.calls[i] : i \in 1..Len(inv'.calls)}
          /\ Call("list_attached_role_policies", FALSE)
                \notin {inv'.calls[i] : i \in 1..Len(inv'.calls)}]_vars

\* C33 (propagation wait after role creation): a run in which a create_role
\* call was accepted sleeps 180 seconds before the DMS stage.
C33_LongWaitAfterCreate ==
    [][(pl.pc = "vpc" /\ pl'.pc = "dms_bucket" /\ pl.created_role)
       => pl'.wait_time = 180]_vars

\* C34 (task readiness after creation): when create_replication_task had its
\* create call accepted and returns an ARN, the service lists the task of that
\* ARN with status ready or stopped.
C34_CreatedTaskReady ==
    [][(/\ inv' # inv
        /\ inv'.op = "create_replication_task"
        /\ Accepted(inv'.calls, "create_replication_task")
        /\ inv'.ret # None)
       => \E t \in rtasks' : t.arn = inv'.ret /\ t.status \in {"ready", "stopped"}]_vars

\* C35 (ledger follows teardown): when delete_di has completed, the ledger
\* records the ARN of no task, endpoint or replication instance whose delete
\* call delete_di had accepted.
C35_LedgerFollowsTeardown ==
    td.pc = "done" =>
        /\ <<"task", get_resource_data("dms", "replication_task_arn")>>
              \notin td.deleted
        /\ <<"endpoint", get_resource_data("dms", "source_endpoint_arn")>>
              \notin td.deleted
        /\ <<"endpoint", get_resource_data("dms", "target_endpoint_arn")>>
              \notin td.deleted
        /\ <<"instance", get_resource_data("dms", "replication_instance_arn")>>
              \notin td.deleted

\* C36 (connection-test success is grounded): test_connection returns True
\* only from the return statement that follows a poll with status successful,
\* or for an S3 endpoint while a tolerance flag is set.
C36_SuccessGrounded ==
    (tc.pc = "done" /\ tc.ret)
       => \/ tc.why = "successful" /\ tc.status = "successful"
          \/ tc.is_s3_endpoint /\ (tc.skip \/ tc.accept)

\* C37 (success reflects the run that was started): when
\* start_replication_task restarted a stopped task and a poll that listed the
\* task stopped ended the call, the listing had shown the start by then.
C37_DecidedAfterStart ==
    (/\ starter.pc = "done"
     /\ starter.cmds \in {<<"reload-target">>, <<"resume-processing">>}
     /\ lower(starter.obs.status) = "stopped")
       => ~starter.lagging

\* C38 (no reuse of a task being deleted): in a run whose stale-task cleanup
\* issued delete_replication_task, the create_replication_task that follows
\* does not return the ARN of a task the service lists as deleting.
C38_NoReuseOfDeleting ==
    [][(/\ pl.pc = "dms_task"
        /\ "delete_replication_task" \in pl.issued
        /\ inv' # inv
        /\ inv'.op = "create_replication_task"
        /\ inv'.ret # None)
       => \A t \in rtasks : t.status = "deleting" => inv'.ret # t.arn]_vars

\* C17 (stop before modify or delete): the clean-up of DMS.main issues
\* delete_replication_task only for tasks that are not running or starting at
\* the time of the call.
C17_StopBeforeChange == pl.deleted_in \cap {"running", "starting"} = {}

\* C16 (bounded teardown waits): delete_di comes to its end, or is cancelled
\* at the prompt, whether or not the resources it waits for ever disappear.
C16_TeardownTerminates == <>(td.pc \in {"done", "cancelled"})

\* The stages whose failure ends the run.
FatalStages == {"rds", "s3", "iam", "dms_bucket", "dms_instance", "dms_source",
                "dms_target", "dms_source_test", "dms_task", "dms_start"}

\* C8 (stage short-circuit): a stage of the run that reported failure (RDS, S3,
\* IAM, bucket validation, replication instance, source endpoint, target
\* endpoint, source connection test, task creation, task start) is the last
\* stage that ran: no stage ran after it, it ran once, and the run has
\* returned failure.  Every remote call of a run is issued by a stage, so no
\* call follows the failure either.
C8_ShortCircuit ==
    \A i \in 1..Len(pl.trace) :
        (pl.trace[i].stage \in FatalStages /\ ~pl.trace[i].ok)
        => /\ i = Len(pl.trace)
           /\ pl.pc = "failed"
           /\ \A j \in 1..Len(pl.trace) :
                 pl.trace[j].stage = pl.trace[i].stage => j = i

\* The source connection test failed after the stages before it went through.
C8_Witness ==
    /\ Len(pl.trace) > 1
    /\ pl.trace[Len(pl.trace)] = [stage |-> "dms_source_test", ok |-> FALSE]
    /\ pl.pc = "failed"

\* C9 (safe re-run): a run of DMS main that met a task of the desired
\* instance, endpoints and table mappings issues neither
\* delete_replication_task nor create_replication_task.
C9_SafeRerun ==
    pl.matching =>
        /\ "delete_replication_task" \notin pl.issued
        /\ "create_replication_task" \notin pl.issued

\* C10: RDS convergence to one resource.  Over any sequence of pipeline
\* runs, the RDS stage issues no create_db_instance call that the service
\* accepts while an earlier instance exists remotely, and two consecutive
\* runs that return an endpoint return the same one.
C10_OneRdsInstance ==
    [][rds_stage
       => /\ Accepted(rdsrun'.calls, "create_db_instance") => dbs = {}
          /\ (rdsrun.ret # NoEndpoint /\ rdsrun'.ret # NoEndpoint)
             => rdsrun'.ret = rdsrun.ret]_vars

====
